---------------------------- MODULE Spec2Model ----------------------------
(***************************************************************************)
(* Model of analyzeData, the trip analysis engine: telemetry preparation,  *)
(* spatial matching of trackside assets, chainage projection, caution      *)
(* order limits, violation classification, brake tests, stoppages, halt    *)
(* approach checks and the summary.                                        *)
(*                                                                         *)
(* Geometry.  Every telemetry sample and every asset of the model lies on  *)
(* one meridian (longitude TrackLon).  A latitude is written in metres of  *)
(* arc north of the equator, so the haversine distance of two points is    *)
(* the absolute difference of their latitudes, the bearing from one to the *)
(* other is 0 (north) or 180 (south), and a grid cell of 0.01 degree is    *)
(* CellM metres wide.  Times are whole seconds.  Speeds are the integers   *)
(* the code obtains with Math.round.  An OHE label "km/pole" is the record *)
(* of its digits.                                                          *)
(***************************************************************************)
EXTENDS Integers, Sequences, FiniteSets, TLC

\* ------------------------------------------------------------------ values

\* parseFloat of a text that is no number
NaN == -1
\* JavaScript Infinity (first matched index, open arrival time, best distance)
Infinity == 1000000000
\* the value of an optional argument that is not given, of a null result field
Null == -2
\* metres of arc per degree of latitude on the sphere of EARTH_RADIUS
MetresPerDegree == 111195
\* width of one cell of GridIndex(0.01): 0.01 degree in metres of arc
CellM == 1112
\* the longitude of the track, in the same unit as a latitude (78 degrees east)
TrackLon == 78 * MetresPerDegree

isNaN(x) == x = NaN

Abs(x) == IF x < 0 THEN -x ELSE x

Min2(a, b) == IF a < b THEN a ELSE b

Max2(a, b) == IF a > b THEN a ELSE b

\* Math.floor(x / d) for d > 0
FloorDiv(x, d) == x \div d

\* Math.round(x / d) for x >= 0, d > 0
RoundDiv(x, d) == (2 * x + d) \div (2 * d)

\* ---------------------------------------------------------------- geometry

getDistance(lat1, lon1, lat2, lon2) == Abs(lat2 - lat1)

getBearing(lat1, lon1, lat2, lon2) == IF lat2 < lat1 THEN 180 ELSE 0

\* An OHE label: the digits before and after the slash (slash = FALSE: no slash)
oheToMeters(oheStr) ==
    IF oheStr.slash
    THEN oheStr.km * 1000 + oheStr.pole * 60
    ELSE oheStr.km * 1000

\* the projection parameter t = dot / lenSq of P on the segment AB, with
\* dot = AP_x * AB_x and lenSq = AB_x * AB_x, is AP_x / AB_x; this is
\* t < -0.1 or t > 1.1 for AB_x # 0, without fractions
OutsideSegment(AP_x, AB_x) ==
    LET a == IF AB_x > 0 THEN AP_x ELSE -AP_x
        b == Abs(AB_x)
    IN  10 * a < -b \/ 10 * a > 11 * b

\* t * segLen for segLen = |AB_x|, AB_x # 0
AlongSegment(AP_x, AB_x) == IF AB_x > 0 THEN AP_x ELSE -AP_x

\* the projection without the buffer: t in [0, 1]
getProjectedChainageNoBuffer(trainLat, trainLon, trainHeading, segStartLat, segStartLon, segStartMeters, segEndLat, segEndLon) ==
    LET segBearing == getBearing(segStartLat, segStartLon, segEndLat, segEndLon)
        d0 == Abs(segBearing - trainHeading)
        diff == IF d0 > 180 THEN 360 - d0 ELSE d0
        AB_x == segEndLat - segStartLat
        AP_x == trainLat - segStartLat
    IN  IF diff > 45 THEN Null
        ELSE IF AB_x = 0 THEN Null
        ELSE IF AlongSegment(AP_x, AB_x) < 0 \/ AlongSegment(AP_x, AB_x) > Abs(AB_x) THEN Null
        ELSE segStartMeters + AlongSegment(AP_x, AB_x)

getProjectedChainage(trainLat, trainLon, trainHeading, segStartLat, segStartLon, segStartMeters, segEndLat, segEndLon) ==
    LET segBearing == getBearing(segStartLat, segStartLon, segEndLat, segEndLon)
        d0 == Abs(segBearing - trainHeading)
        diff == IF d0 > 180 THEN 360 - d0 ELSE d0
        AB_x == segEndLat - segStartLat
        AP_x == trainLat - segStartLat
    IN  IF diff > 45 THEN Null
        ELSE IF AB_x = 0 THEN Null
        ELSE IF OutsideSegment(AP_x, AB_x) THEN Null
        ELSE segStartMeters + AlongSegment(AP_x, AB_x)

\* ------------------------------------------------------- caution orders

trainLengthOf(type) == IF type = "goods" THEN 700 ELSE 600

\* the loop with the zone not extended by the train's length
RECURSIVE LimitLoopNoLength(_, _, _, _, _)
LimitLoopNoLength(currentChainage, cautionOrders, trainLength, k, limit) ==
    IF k > Len(cautionOrders) THEN limit
    ELSE LET co == cautionOrders[k]
             startM == oheToMeters(co.startOhe)
             endM == oheToMeters(co.endOhe)
             inside == currentChainage >= Min2(startM, endM)
                       /\ currentChainage <= Max2(startM, endM)
         IN  LimitLoopNoLength(currentChainage, cautionOrders, trainLength, k + 1,
                               IF inside /\ co.speedLimit < limit THEN co.speedLimit
                               ELSE limit)

RECURSIVE LimitLoop(_, _, _, _, _)
LimitLoop(currentChainage, cautionOrders, trainLength, k, limit) ==
    IF k > Len(cautionOrders) THEN limit
    ELSE LET co == cautionOrders[k]
             startM == oheToMeters(co.startOhe)
             endM == oheToMeters(co.endOhe)
             zoneStart == Min2(startM, endM)
             zoneEnd == Max2(startM, endM)
             effectiveEnd == zoneEnd + trainLength
             inside == currentChainage >= zoneStart /\ currentChainage <= effectiveEnd
         IN  LimitLoop(currentChainage, cautionOrders, trainLength, k + 1,
                       IF inside /\ co.speedLimit < limit THEN co.speedLimit ELSE limit)

\* the limit of the last zone of the list that covers the chainage
RECURSIVE LastZoneLoop(_, _, _, _, _)
LastZoneLoop(currentChainage, cautionOrders, trainLength, k, limit) ==
    IF k > Len(cautionOrders) THEN limit
    ELSE LET co == cautionOrders[k]
             startM == oheToMeters(co.startOhe)
             endM == oheToMeters(co.endOhe)
             inside == currentChainage >= Min2(startM, endM)
                       /\ currentChainage <= Max2(startM, endM) + trainLength
         IN  LastZoneLoop(currentChainage, cautionOrders, trainLength, k + 1,
                          IF inside THEN co.speedLimit ELSE limit)

LimitOfLastZone(currentChainage, globalMPS, cautionOrders, trainLength) ==
    LastZoneLoop(currentChainage, cautionOrders, trainLength, 1, globalMPS)

getApplicableLimitLinear(currentChainage, globalMPS, cautionOrders, trainLength) ==
    LimitLoop(currentChainage, cautionOrders, trainLength, 1, globalMPS)

\* the classification with the tolerance band closed one short
ClassifyInclusive(speed, limitApplied) ==
    IF speed >= limitApplied + 3 THEN "violation"
    ELSE IF speed > limitApplied THEN "warning"
    ELSE "ok"

\* status of a matched OHE asset from its speed and the limit applied
Classify(speed, limitApplied) ==
    IF speed > limitApplied + 3 THEN "violation"
    ELSE IF speed > limitApplied THEN "warning"
    ELSE "ok"

\* ------------------------------------------------- telemetry preparation

\* lat > 60 && lon < 40 (degrees); a comparison with NaN is false
Flipped(lat, lon) ==
    /\ ~isNaN(lat) /\ ~isNaN(lon)
    /\ lat > 60 * MetresPerDegree /\ lon < 40 * MetresPerDegree

depTimeMs(departureTime) == IF departureTime = Null THEN 0 ELSE departureTime

arrTimeMs(arrivalTime) == IF arrivalTime = Null THEN Infinity ELSE arrivalTime

\* one raw row as a GPSPoint; idx is the 0-based index of the row in the file
ToPoint(row, idx) ==
    [idx |-> idx,
     lat |-> IF Flipped(row.lat, row.lon) THEN row.lon ELSE row.lat,
     lon |-> IF Flipped(row.lat, row.lon) THEN row.lat ELSE row.lon,
     speed |-> IF isNaN(row.speed) THEN 0 ELSE row.speed,
     time |-> row.time,
     heading |-> 0]

ValidCoords(p) == ~isNaN(p.lat) /\ ~isNaN(p.lon) /\ p.lat # 0 /\ p.lon # 0

InWindow(p, dep, arr) == ~isNaN(p.time) /\ p.time >= dep /\ p.time <= arr

\* the insertion that puts a row before the rows of its own timestamp
RECURSIVE InsertByTimeBefore(_, _)
InsertByTimeBefore(s, p) ==
    IF s = <<>> \/ s[Len(s)].time < p.time THEN Append(s, p)
    ELSE Append(InsertByTimeBefore(SubSeq(s, 1, Len(s) - 1), p), s[Len(s)])

\* Array.prototype.sort((a, b) => a.time - b.time): stable, ascending
RECURSIVE InsertByTime(_, _)
InsertByTime(s, p) ==
    IF s = <<>> \/ s[Len(s)].time <= p.time THEN Append(s, p)
    ELSE Append(InsertByTime(SubSeq(s, 1, Len(s) - 1), p), s[Len(s)])

\* the sort, the first Len(acc) elements of s inserted
RECURSIVE SortByTime(_, _)
SortByTime(s, acc) ==
    IF Len(acc) = Len(s) THEN acc
    ELSE SortByTime(s, InsertByTime(acc, s[Len(acc) + 1]))

\* the heading loop with the bearing taken from 5 m on
RECURSIVE CalcHeadingsInclusive(_, _)
CalcHeadingsInclusive(s, acc) ==
    IF Len(acc) = Len(s) THEN acc
    ELSE LET k == Len(acc) + 1
             prev == IF k > 1 THEN acc[k - 1].heading ELSE 0
             h == IF k = Len(s) THEN prev
                  ELSE IF getDistance(s[k].lat, s[k].lon, s[k + 1].lat, s[k + 1].lon) >= 5
                       THEN getBearing(s[k].lat, s[k].lon, s[k + 1].lat, s[k + 1].lon)
                       ELSE prev
         IN  CalcHeadingsInclusive(s, Append(acc, [s[k] EXCEPT !.heading = h]))

\* the heading loop, the headings of the first Len(acc) points set
RECURSIVE CalcHeadings(_, _)
CalcHeadings(s, acc) ==
    IF Len(acc) = Len(s) THEN acc
    ELSE LET k == Len(acc) + 1
             prev == IF k > 1 THEN acc[k - 1].heading ELSE 0
             h == IF k = Len(s) THEN prev
                  ELSE IF getDistance(s[k].lat, s[k].lon, s[k + 1].lat, s[k + 1].lon) > 5
                       THEN getBearing(s[k].lat, s[k].lon, s[k + 1].lat, s[k + 1].lon)
                       ELSE prev
         IN  CalcHeadings(s, Append(acc, [s[k] EXCEPT !.heading = h]))

PrepareRtis(raw, departureTime, arrivalTime) ==
    LET typed == [k \in 1..Len(raw) |-> ToPoint(raw[k], k - 1)]
        KeepCoords(p) == ValidCoords(p)
        KeepTime(p) == InWindow(p, depTimeMs(departureTime), arrTimeMs(arrivalTime))
        kept == SelectSeq(SelectSeq(typed, KeepCoords), KeepTime)
    IN  CalcHeadings(SortByTime(kept, <<>>), <<>>)

\* ------------------------------------------------------------ GridIndex

cell(lat, lon) == <<FloorDiv(lat, CellM), FloorDiv(lon, CellM)>>

\* the buckets of the grid, as the sequence of the entries in insertion order
BuildGrid(points) ==
    [k \in 1..Len(points) |->
        [key |-> cell(points[k].lat, points[k].lon),
         idx |-> points[k].idx, lat |-> points[k].lat, lon |-> points[k].lon]]

Bucket(grid, key) == LET InCell(e) == e.key = key IN SelectSeq(grid, InCell)

query(grid, lat, lon) ==
    LET c == cell(lat, lon)
        B(dx, dy) == Bucket(grid, <<c[1] + dx, c[2] + dy>>)
    IN  B(-1, -1) \o B(-1, 0) \o B(-1, 1) \o
        B(0, -1) \o B(0, 0) \o B(0, 1) \o
        B(1, -1) \o B(1, 0) \o B(1, 1)

\* ------------------------------------------------------------- matching

\* bestP = null
NoPoint == [idx |-> Null, lat |-> 0, lon |-> 0, speed |-> 0, time |-> Null, heading |-> 0]

\* maxDistance when it is given and positive, else 500
thresholdOf(maxDistance) == IF maxDistance # Null /\ maxDistance > 0 THEN maxDistance ELSE 500

\* rtisCleaned[c.idx] is undefined: reading its lat throws a TypeError
BadCandidate(cleaned, candidates) ==
    \E k \in 1..Len(candidates) : candidates[k].idx >= Len(cleaned)

\* candidates.forEach: best = [dist, p], the nearest rtisCleaned[c.idx] so far
RECURSIVE BestLoop(_, _, _, _, _, _)
BestLoop(cleaned, candidates, lat, lon, k, best) ==
    IF k > Len(candidates) THEN best
    ELSE LET rtisPt == cleaned[candidates[k].idx + 1]
             dist == getDistance(lat, lon, rtisPt.lat, rtisPt.lon)
         IN  IF dist < best.dist
             THEN BestLoop(cleaned, candidates, lat, lon, k + 1,
                           [dist |-> dist, p |-> rtisPt])
             ELSE BestLoop(cleaned, candidates, lat, lon, k + 1, best)

FindBest(cleaned, candidates, lat, lon) ==
    BestLoop(cleaned, candidates, lat, lon, 1, [dist |-> Infinity, p |-> NoPoint])

\* the chainage of a matched OHE row i of data: projected on the segment to the
\* next row, or the label's own metres
SnapChainage(data, i, lat, lon, bestP) ==
    LET oheMeters == oheToMeters(data[i].label)
        snappedMeters ==
            IF i < Len(data) /\ ~isNaN(data[i + 1].lat) /\ ~isNaN(data[i + 1].lon)
            THEN getProjectedChainage(bestP.lat, bestP.lon, bestP.heading,
                                      lat, lon, oheMeters,
                                      data[i + 1].lat, data[i + 1].lon)
            ELSE Null
    IN  IF snappedMeters = Null THEN oheMeters ELSE snappedMeters

\* the row's coordinates after the flipped-coordinates fix
RowLat(row) == IF Flipped(row.lat, row.lon) THEN row.lon ELSE row.lat

RowLon(row) == IF Flipped(row.lat, row.lon) THEN row.lat ELSE row.lon

\* the candidates of row i: the grid entries of the cells around it
RowCandidates(data, i, grid) == query(grid, RowLat(data[i]), RowLon(data[i]))

\* A. the best GPS candidate of row i among candidates: [dist, p]
RowBest(data, i, cleaned, candidates) ==
    FindBest(cleaned, candidates, RowLat(data[i]), RowLon(data[i]))

\* the result of a row with the limit and the classification applied to every
\* matched row, whatever its type
RowResultAnyType(data, i, type, best, maxDistance, globalMPS, cautionOrders, trainLength) ==
    LET lat == RowLat(data[i])
        lon == RowLon(data[i])
        bestP == best.p
        matched == bestP # NoPoint /\ best.dist <= thresholdOf(maxDistance)
        chainage == IF matched THEN SnapChainage(data, i, lat, lon, bestP) ELSE 0
        limitApplied == IF matched
                        THEN getApplicableLimitLinear(chainage, globalMPS, cautionOrders, trainLength)
                        ELSE Null
    IN  [location |-> data[i].label,
         latitude |-> lat,
         longitude |-> lon,
         logging_time |-> bestP.time,
         speed_kmph |-> IF matched THEN bestP.speed ELSE Null,
         limit_applied |-> limitApplied,
         status |-> IF matched THEN Classify(bestP.speed, limitApplied) ELSE "ok",
         matched |-> matched,
         source |-> type,
         chainage |-> chainage]

\* one iteration of the loop of processDataset on row i of data, for a row with
\* numeric coordinates whose best candidate is best: the result pushed
RowResult(data, i, type, best, maxDistance, globalMPS, cautionOrders, trainLength) ==
    LET lat == RowLat(data[i])
        lon == RowLon(data[i])
        bestP == best.p
        matched == bestP # NoPoint /\ best.dist <= thresholdOf(maxDistance)
        chainage == IF matched /\ type = "OHE"
                    THEN SnapChainage(data, i, lat, lon, bestP) ELSE 0
        limitApplied == IF matched /\ type = "OHE"
                        THEN getApplicableLimitLinear(chainage, globalMPS, cautionOrders, trainLength)
                        ELSE Null
    IN  [location |-> data[i].label,
         latitude |-> lat,
         longitude |-> lon,
         logging_time |-> bestP.time,
         speed_kmph |-> IF matched THEN bestP.speed ELSE Null,
         limit_applied |-> limitApplied,
         status |-> IF matched /\ type = "OHE"
                    THEN Classify(bestP.speed, limitApplied) ELSE "ok",
         matched |-> matched,
         source |-> type,
         chainage |-> chainage]

\* ---------------------------------------------------------- valid section

ValidSection(cleaned, first, last) ==
    LET InRange(p) == p.idx >= first /\ p.idx <= last
    IN  IF first # Infinity /\ last # -1 THEN SelectSeq(cleaned, InRange) ELSE <<>>

\* ------------------------------------------------------------ brake tests

UnknownLabel == [km |-> 0, pole |-> 0, slash |-> FALSE]

RECURSIVE LocLoop(_, _, _, _, _)
LocLoop(results, lat, lon, k, acc) ==
    IF k > Len(results) THEN acc.name
    ELSE LET d == getDistance(lat, lon, results[k].latitude, results[k].longitude)
         IN  IF d < acc.minD /\ d < 1000
             THEN LocLoop(results, lat, lon, k + 1,
                          [minD |-> d, name |-> results[k].location])
             ELSE LocLoop(results, lat, lon, k + 1, acc)

findLocName(results, lat, lon) ==
    LocLoop(results, lat, lon, 1, [minD |-> Infinity, name |-> UnknownLabel])

BrakeRecord(type, status, p, lowest, results, details) ==
    [type |-> type, status |-> status, startSpeed |-> p.speed, lowestSpeed |-> lowest,
     dropAmount |-> p.speed - lowest, location |-> findLocName(results, p.lat, p.lon),
     timestamp |-> p.time, details |-> details]

\* the inner loop of the BFT scan: j runs from i up to min(i + 20, length)
RECURSIVE BftMinLoop(_, _, _, _)
BftMinLoop(vs, j, end, minSpeed) ==
    IF j > end THEN minSpeed
    ELSE IF vs[j].speed = 0 THEN BftMinLoop(vs, j + 1, end, 0)
    ELSE IF vs[j].speed < minSpeed THEN BftMinLoop(vs, j + 1, end, vs[j].speed)
    ELSE BftMinLoop(vs, j + 1, end, minSpeed)

\* the window one sample longer
BftWindowMinLong(vs, i) == BftMinLoop(vs, i, Min2(i + 20, Len(vs)), vs[i].speed)

BftWindowMin(vs, i) == BftMinLoop(vs, i, Min2(i + 20 - 1, Len(vs)), vs[i].speed)

\* the BFT scan that does not stop at its first result
RECURSIVE BftLoopEvery(_, _, _)
BftLoopEvery(vs, i, results) ==
    IF i > Len(vs) - 1 THEN <<>>
    ELSE LET p == vs[i]
         IN  IF p.speed > 15
             THEN <<BrakeRecord("BFT", "improper", p, p.speed, results,
                                "Speed crossed 15kmph without valid test")>>
                  \o BftLoopEvery(vs, i + 1, results)
             ELSE IF p.speed >= 10 /\ p.speed <= 15 /\ p.speed - BftWindowMin(vs, i) >= 5
             THEN <<BrakeRecord("BFT", "proper", p, BftWindowMin(vs, i), results,
                                "Drop >= 5 kmph observed")>>
                  \o BftLoopEvery(vs, i + 1, results)
             ELSE BftLoopEvery(vs, i + 1, results)

\* the BFT scan from sample i (1-based): the result, or <<>> for null
RECURSIVE BftLoop(_, _, _)
BftLoop(vs, i, results) ==
    IF i > Len(vs) - 1 THEN <<>>
    ELSE LET p == vs[i]
         IN  IF p.speed > 15
             THEN <<BrakeRecord("BFT", "improper", p, p.speed, results,
                                "Speed crossed 15kmph without valid test")>>
             ELSE IF p.speed >= 10 /\ p.speed <= 15 /\ p.speed - BftWindowMin(vs, i) >= 5
             THEN <<BrakeRecord("BFT", "proper", p, BftWindowMin(vs, i), results,
                                "Drop >= 5 kmph observed")>>
             ELSE BftLoop(vs, i + 1, results)

RECURSIVE BptMinLoop(_, _, _, _)
BptMinLoop(vs, j, end, minSpeed) ==
    IF j > end THEN minSpeed
    ELSE IF vs[j].speed < minSpeed THEN BptMinLoop(vs, j + 1, end, vs[j].speed)
    ELSE BptMinLoop(vs, j + 1, end, minSpeed)

BptWindowMin(vs, i) == BptMinLoop(vs, i, Min2(i + 60 - 1, Len(vs)), vs[i].speed)

\* the BPT scan with a drop of exactly 50% not accepted
RECURSIVE BptLoopStrict(_, _, _)
BptLoopStrict(vs, i, results) ==
    IF i > Len(vs) - 1 THEN <<>>
    ELSE LET p == vs[i]
         IN  IF getDistance(vs[1].lat, vs[1].lon, p.lat, p.lon) > 15000 THEN <<>>
             ELSE IF p.speed >= 60 /\ 2 * BptWindowMin(vs, i) < p.speed
             THEN <<BrakeRecord("BPT", "proper", p, BptWindowMin(vs, i), results,
                                "50% Drop observed")>>
             ELSE BptLoopStrict(vs, i + 1, results)

\* the BPT scan from sample i (1-based): the proper result, or <<>> for null
RECURSIVE BptLoop(_, _, _)
BptLoop(vs, i, results) ==
    IF i > Len(vs) - 1 THEN <<>>
    ELSE LET p == vs[i]
         IN  IF getDistance(vs[1].lat, vs[1].lon, p.lat, p.lon) > 15000 THEN <<>>
             ELSE IF p.speed >= 60 /\ 2 * BptWindowMin(vs, i) <= p.speed
             THEN <<BrakeRecord("BPT", "proper", p, BptWindowMin(vs, i), results,
                                "50% Drop observed")>>
             ELSE BptLoop(vs, i + 1, results)

\* validSectionData.find(p => p.speed >= 60): its index, or 0
RECURSIVE FindOpp(_, _)
FindOpp(vs, i) ==
    IF i > Len(vs) THEN 0 ELSE IF vs[i].speed >= 60 THEN i ELSE FindOpp(vs, i + 1)

\* the BPT result with the opportunity taken at any distance from the start
BptResultAnyRange(vs, results) ==
    LET bptResult == BptLoop(vs, 1, results)
        opp == FindOpp(vs, 1)
    IN  IF bptResult # <<>> THEN bptResult
        ELSE IF opp # 0
        THEN <<BrakeRecord("BPT", "improper", vs[opp], vs[opp].speed, results,
                           "Reached 60+ kmph but no 50% drop detected")>>
        ELSE <<>>

\* the BPT result with a record forced when 60 km/h is not reached in range
BptResultForced(vs, results) ==
    LET bptResult == BptLoop(vs, 1, results)
        opp == FindOpp(vs, 1)
    IN  IF bptResult # <<>> THEN bptResult
        ELSE IF opp # 0 /\ getDistance(vs[1].lat, vs[1].lon, vs[opp].lat, vs[opp].lon) <= 15000
        THEN <<BrakeRecord("BPT", "improper", vs[opp], vs[opp].speed, results,
                           "Reached 60+ kmph but no 50% drop detected")>>
        ELSE <<BrakeRecord("BPT", "not_performed", vs[1], vs[1].speed, results,
                           "Did not reach 60 kmph")>>

BptResult(vs, results) ==
    LET bptResult == BptLoop(vs, 1, results)
        opp == FindOpp(vs, 1)
    IN  IF bptResult # <<>> THEN bptResult
        ELSE IF opp # 0 /\ getDistance(vs[1].lat, vs[1].lon, vs[opp].lat, vs[opp].lon) <= 15000
        THEN <<BrakeRecord("BPT", "improper", vs[opp], vs[opp].speed, results,
                           "Reached 60+ kmph but no 50% drop detected")>>
        ELSE <<>>

\* the entry rule applied to the BPT only
BrakeTestsScanFirst(vs, results) ==
    IF vs = <<>> THEN <<>>
    ELSE BftLoop(vs, 1, results) \o
         (IF vs[1].speed > 15
          THEN <<BrakeRecord("BPT", "not_performed", vs[1], vs[1].speed, results,
                             "Already Running")>>
          ELSE BptResult(vs, results))

\* 7. Brake Tests: the records pushed to brakeTests
BrakeTestsOf(vs, results) ==
    IF vs = <<>> THEN <<>>
    ELSE IF vs[1].speed > 15
    THEN <<BrakeRecord("BFT", "not_performed", vs[1], vs[1].speed, results, "Already Running"),
           BrakeRecord("BPT", "not_performed", vs[1], vs[1].speed, results, "Already Running")>>
    ELSE BftLoop(vs, 1, results) \o BptResult(vs, results)

\* ------------------------------------------------------- signal history

RECURSIVE InsertByLoggingTime(_, _)
InsertByLoggingTime(s, r) ==
    IF s = <<>> \/ s[Len(s)].logging_time <= r.logging_time THEN Append(s, r)
    ELSE Append(InsertByLoggingTime(SubSeq(s, 1, Len(s) - 1), r), s[Len(s)])

RECURSIVE SortByLoggingTime(_, _)
SortByLoggingTime(s, acc) ==
    IF Len(acc) = Len(s) THEN acc
    ELSE SortByLoggingTime(s, InsertByLoggingTime(acc, s[Len(acc) + 1]))

SignalHistoryOf(sigResults) ==
    LET Known(r) == r.matched /\ r.logging_time # Null
    IN  SortByLoggingTime(SelectSeq(sigResults, Known), <<>>)

\* ------------------------------------------------------------- stoppages

\* the location of a stoppage that is near no signal: the text of its latitude
LatLabel(lat) == [km |-> lat, pole |-> 0, slash |-> FALSE]

RECURSIVE NearLoop(_, _, _, _, _)
NearLoop(sigResults, lat, lon, k, acc) ==
    IF k > Len(sigResults) THEN acc
    ELSE LET d == getDistance(lat, lon, sigResults[k].latitude, sigResults[k].longitude)
         IN  IF d < 200 /\ d < acc.minD
             THEN NearLoop(sigResults, lat, lon, k + 1,
                           [found |-> TRUE, name |-> sigResults[k].location, minD |-> d])
             ELSE NearLoop(sigResults, lat, lon, k + 1, acc)

isNearSignal(sigResults, lat, lon) ==
    NearLoop(sigResults, lat, lon, 1, [found |-> FALSE, name |-> UnknownLabel, minD |-> Infinity])

StoppageRecord(stopStart, p, sigResults) ==
    LET sigCheck == isNearSignal(sigResults, stopStart.lat, stopStart.lon)
    IN  [location |-> IF sigCheck.found THEN sigCheck.name ELSE LatLabel(stopStart.lat),
         latitude |-> stopStart.lat,
         longitude |-> stopStart.lon,
         arrivalTime |-> stopStart.time,
         departureTime |-> p.time,
         durationMin |-> RoundDiv(p.time - stopStart.time, 60),
         isSignal |-> sigCheck.found]

\* the stoppage scan with a run of exactly 30 s reported
RECURSIVE StopLoopInclusive(_, _, _, _)
StopLoopInclusive(vs, i, stopStart, sigResults) ==
    IF i > Len(vs) THEN <<>>
    ELSE IF vs[i].speed = 0
    THEN IF stopStart = 0 THEN StopLoopInclusive(vs, i + 1, i, sigResults)
         ELSE StopLoopInclusive(vs, i + 1, stopStart, sigResults)
    ELSE IF stopStart # 0
    THEN (IF vs[i].time - vs[stopStart].time >= 30
          THEN <<StoppageRecord(vs[stopStart], vs[i], sigResults)>>
          ELSE <<>>)
         \o StopLoopInclusive(vs, i + 1, 0, sigResults)
    ELSE StopLoopInclusive(vs, i + 1, 0, sigResults)

\* the stoppage scan that closes the run still open at the last sample
RECURSIVE StopLoopClosing(_, _, _, _)
StopLoopClosing(vs, i, stopStart, sigResults) ==
    IF i > Len(vs)
    THEN IF stopStart # 0 /\ vs[Len(vs)].time - vs[stopStart].time > 30
         THEN <<StoppageRecord(vs[stopStart], vs[Len(vs)], sigResults)>>
         ELSE <<>>
    ELSE IF vs[i].speed = 0
    THEN IF stopStart = 0 THEN StopLoopClosing(vs, i + 1, i, sigResults)
         ELSE StopLoopClosing(vs, i + 1, stopStart, sigResults)
    ELSE IF stopStart # 0
    THEN (IF vs[i].time - vs[stopStart].time > 30
          THEN <<StoppageRecord(vs[stopStart], vs[i], sigResults)>>
          ELSE <<>>)
         \o StopLoopClosing(vs, i + 1, 0, sigResults)
    ELSE StopLoopClosing(vs, i + 1, 0, sigResults)

\* the stoppage scan from sample i; stopStart is the index of the sample that
\* opened the current run of zero speed, 0 for null
RECURSIVE StopLoop(_, _, _, _)
StopLoop(vs, i, stopStart, sigResults) ==
    IF i > Len(vs) THEN <<>>
    ELSE IF vs[i].speed = 0
    THEN IF stopStart = 0 THEN StopLoop(vs, i + 1, i, sigResults)
         ELSE StopLoop(vs, i + 1, stopStart, sigResults)
    ELSE IF stopStart # 0
    THEN (IF vs[i].time - vs[stopStart].time > 30
          THEN <<StoppageRecord(vs[stopStart], vs[i], sigResults)>>
          ELSE <<>>)
         \o StopLoop(vs, i + 1, 0, sigResults)
    ELSE StopLoop(vs, i + 1, 0, sigResults)

StoppagesOf(vs, sigResults) == StopLoop(vs, 1, 0, sigResults)

\* ------------------------------------------------ halt approach violations

\* stoppageSource.findIndex(p => p.timeStr === stop.arrivalTime), 0 for -1
RECURSIVE FindArrival(_, _, _)
FindArrival(vs, stop, k) ==
    IF k > Len(vs) THEN 0
    ELSE IF vs[k].time = stop.arrivalTime THEN k
    ELSE FindArrival(vs, stop, k + 1)

\* signalHistory.findIndex: the first entry of the stop's signal logged no later
\* than the arrival, 0 for -1
RECURSIVE FindInHistory(_, _, _)
FindInHistory(history, stop, k) ==
    IF k > Len(history) THEN 0
    ELSE IF history[k].location = stop.location
            /\ history[k].logging_time <= stop.arrivalTime THEN k
    ELSE FindInHistory(history, stop, k + 1)

\* the backward scan of the 100 m approach from sample i
RECURSIVE ApproachLoop(_, _, _)
ApproachLoop(vs, stop, i) ==
    IF i < 1 THEN <<>>
    ELSE IF getDistance(stop.latitude, stop.longitude, vs[i].lat, vs[i].lon) > 100 THEN <<>>
    ELSE IF vs[i].speed > 15
    THEN <<[haltLocation |-> stop.location, checkpoint |-> "100m Approach", limit |-> 15,
            actualSpeed |-> vs[i].speed, timestamp |-> vs[i].time]>>
    ELSE ApproachLoop(vs, stop, i - 1)

\* prev1.speed_kmph || 0
SpeedOrZero(r) == IF r.speed_kmph = Null THEN 0 ELSE r.speed_kmph

\* the previous-signal checks with the limits taken inclusive
PrevSignalChecksInclusive(stop, history) ==
    LET sigHistoryIdx == FindInHistory(history, stop, 1)
        prev1 == history[sigHistoryIdx - 1]
        prev2 == history[sigHistoryIdx - 2]
    IN  (IF sigHistoryIdx > 1 /\ SpeedOrZero(prev1) >= 60
         THEN <<[haltLocation |-> stop.location, checkpoint |-> "Prev Signal", limit |-> 60,
                 actualSpeed |-> SpeedOrZero(prev1), timestamp |-> prev1.logging_time]>>
         ELSE <<>>)
        \o
        (IF sigHistoryIdx > 2 /\ SpeedOrZero(prev2) >= 100
         THEN <<[haltLocation |-> stop.location, checkpoint |-> "2nd Prev Signal", limit |-> 100,
                 actualSpeed |-> SpeedOrZero(prev2), timestamp |-> prev2.logging_time]>>
         ELSE <<>>)

PrevSignalChecks(stop, history) ==
    LET sigHistoryIdx == FindInHistory(history, stop, 1)
        prev1 == history[sigHistoryIdx - 1]
        prev2 == history[sigHistoryIdx - 2]
    IN  (IF sigHistoryIdx > 1 /\ SpeedOrZero(prev1) > 60
         THEN <<[haltLocation |-> stop.location, checkpoint |-> "Prev Signal", limit |-> 60,
                 actualSpeed |-> SpeedOrZero(prev1), timestamp |-> prev1.logging_time]>>
         ELSE <<>>)
        \o
        (IF sigHistoryIdx > 2 /\ SpeedOrZero(prev2) > 100
         THEN <<[haltLocation |-> stop.location, checkpoint |-> "2nd Prev Signal", limit |-> 100,
                 actualSpeed |-> SpeedOrZero(prev2), timestamp |-> prev2.logging_time]>>
         ELSE <<>>)

HaltOfStop(vs, stop, history) ==
    LET stopIdx == FindArrival(vs, stop, 1)
    IN  IF ~stop.isSignal \/ stopIdx = 0 THEN <<>>
        ELSE ApproachLoop(vs, stop, stopIdx - 1) \o PrevSignalChecks(stop, history)

RECURSIVE HaltLoop(_, _, _, _)
HaltLoop(vs, stops, history, k) ==
    IF k > Len(stops) THEN <<>>
    ELSE HaltOfStop(vs, stops[k], history) \o HaltLoop(vs, stops, history, k + 1)

HaltViolationsOf(vs, stops, history) == HaltLoop(vs, stops, history, 1)

\* --------------------------------------------------------------- summary

RECURSIVE SumSpeeds(_, _)
SumSpeeds(vs, k) == IF k > Len(vs) THEN 0 ELSE vs[k].speed + SumSpeeds(vs, k + 1)

MaxSpeed(vs) == CHOOSE m \in {vs[k].speed : k \in 1..Len(vs)} :
                    \A k \in 1..Len(vs) : vs[k].speed <= m

MinSpeed(vs) == CHOOSE m \in {vs[k].speed : k \in 1..Len(vs)} :
                    \A k \in 1..Len(vs) : vs[k].speed >= m

\* results.filter(r => r.matched).length
CountMatched(results) == Cardinality({k \in 1..Len(results) : results[k].matched})

\* the count of the results with the status, the violations always counted
CountStatusOrWorse(results, status) ==
    Cardinality({k \in 1..Len(results) : results[k].status \in {status, "violation"}})

\* results.filter(r => r.status === status).length
CountStatus(results, status) ==
    Cardinality({k \in 1..Len(results) : results[k].status = status})

\* a quotient the code leaves as a fraction: numerator and denominator
Ratio(n, d) == [num |-> n, den |-> d]

SummaryOf(results, vs, globalMPS, trainType, stops, brakes, halts) ==
    LET matchedLen == CountMatched(results)
    IN  [total_structures |-> Len(results),
         matched_structures |-> matchedLen,
         unmatched_structures |-> Len(results) - matchedLen,
         match_rate |-> IF Len(results) > 0 THEN Ratio(matchedLen * 100, Len(results))
                        ELSE Ratio(0, 1),
         avg_speed |-> IF Len(vs) > 0 THEN Ratio(SumSpeeds(vs, 1), Len(vs)) ELSE Ratio(0, 1),
         max_speed |-> IF Len(vs) > 0 THEN MaxSpeed(vs) ELSE 0,
         min_speed |-> IF Len(vs) > 0 THEN MinSpeed(vs) ELSE 0,
         violation_count |-> CountStatus(results, "violation"),
         warning_count |-> CountStatus(results, "warning"),
         config_mps |-> globalMPS,
         train_type |-> trainType,
         stoppages |-> stops,
         brake_tests |-> brakes,
         halt_approach_violations |-> halts]

\* ------------------------------------------------------------------ state

VARIABLES
    \* the arguments of analyzeData
    rtisDataRaw, oheDataRaw, signalsDataRaw, maxDistance, globalMPS,
    cautionOrders, trainType, departureTime, arrivalTime,
    \* the position in analyzeData, the loop index of processDataset, the error thrown
    pc, i, error,
    \* its local state and its outputs
    rtisCleaned, firstMatchedRtisIndex, lastMatchedRtisIndex,
    finalResults, signalResults, signalHistory, validSectionData,
    brakeTests, stoppages, haltViolations, summary,
    \* the state of the page Home: what runIntegratedAnalysis has computed
    home

inputs == <<rtisDataRaw, oheDataRaw, signalsDataRaw, maxDistance, globalMPS,
            cautionOrders, trainType, departureTime, arrivalTime>>

matching == <<rtisCleaned, firstMatchedRtisIndex, lastMatchedRtisIndex,
              finalResults, signalResults, signalHistory>>

outputs == <<validSectionData, brakeTests, stoppages, haltViolations, summary>>

vars == <<inputs, pc, i, error, matching, outputs, home>>

isOheMaster == Len(oheDataRaw) > 0

masterDataRaw == IF isOheMaster THEN oheDataRaw ELSE signalsDataRaw

masterType == IF isOheMaster THEN "OHE" ELSE "Signal"

trainLength == trainLengthOf(trainType)

rtisMatchGrid == BuildGrid(rtisCleaned)

NoSummary == [total_structures |-> Null]

\* setResults(null)
NoResults == [summary |-> Null]

\* the page before a run
Idle ==
    [gpsData |-> <<>>, oheData |-> <<>>, signalData |-> <<>>, filteredGps |-> <<>>,
     halts |-> [stoppages |-> <<>>, brakeTests |-> <<>>],
     finalDisplayData |-> <<>>, results |-> NoResults]

\* the state analyzeData starts in, its arguments given
Start ==
    /\ pc = "prepare"
    /\ i = 0
    /\ error = "none"
    /\ rtisCleaned = <<>>
    /\ firstMatchedRtisIndex = Infinity
    /\ lastMatchedRtisIndex = -1
    /\ finalResults = <<>>
    /\ signalResults = <<>>
    /\ signalHistory = <<>>
    /\ validSectionData = <<>>
    /\ brakeTests = <<>>
    /\ stoppages = <<>>
    /\ haltViolations = <<>>
    /\ summary = NoSummary
    /\ home = Idle

\* ---------------------------------------------------------------- actions

Throw(name) ==
    /\ pc' = "failed"
    /\ error' = name
    /\ UNCHANGED <<home, inputs, i, matching, outputs>>

\* 1-3. the column checks, the telemetry preparation and the master columns
PrepareTelemetry ==
    /\ pc = "prepare"
    /\ IF rtisDataRaw = <<>> THEN Throw("RTIS file missing critical columns")
       ELSE IF masterDataRaw = <<>>
       THEN Throw("Master file missing Latitude/Longitude columns")
       ELSE /\ rtisCleaned' = PrepareRtis(rtisDataRaw, departureTime, arrivalTime)
            /\ pc' = "master"
            /\ i' = 1
            /\ UNCHANGED <<home, inputs, error, firstMatchedRtisIndex, lastMatchedRtisIndex,
                           finalResults, signalResults, signalHistory, outputs>>

\* the position after the last row of the master catalogue
AfterMaster == IF isOheMaster /\ Len(signalsDataRaw) > 0 THEN "signals" ELSE "section"

\* the best candidate of row k of data in the grid of the cleaned telemetry
BestOf(data, k) ==
    RowBest(data, k, rtisCleaned, RowCandidates(data, k, rtisMatchGrid))

\* pIdx
MatchedIdx(data, k) == BestOf(data, k).p.idx

RowOf(data, k, type) ==
    RowResult(data, k, type, BestOf(data, k), maxDistance, globalMPS,
              cautionOrders, trainLength)

RowSkipped(data, k) == isNaN(data[k].lat) \/ isNaN(data[k].lon)

\* the lower bound overwritten by every matched row
FirstAfterOverwrite(row, best) ==
    IF row.matched THEN best.p.idx ELSE firstMatchedRtisIndex

\* the matched index bounds after a row with result row and best candidate best
FirstAfter(row, best) ==
    IF row.matched /\ best.p.idx < firstMatchedRtisIndex
    THEN best.p.idx ELSE firstMatchedRtisIndex

LastAfter(row, best) ==
    IF row.matched /\ best.p.idx > lastMatchedRtisIndex
    THEN best.p.idx ELSE lastMatchedRtisIndex

\* 4. one iteration of processDataset over the master catalogue
ProcessMasterRow ==
    /\ pc = "master"
    /\ IF RowSkipped(masterDataRaw, i)
       THEN /\ UNCHANGED <<finalResults, firstMatchedRtisIndex, lastMatchedRtisIndex, error>>
            /\ pc' = IF i = Len(masterDataRaw) THEN AfterMaster ELSE "master"
            /\ i' = IF i = Len(masterDataRaw) THEN 1 ELSE i + 1
       ELSE LET candidates == RowCandidates(masterDataRaw, i, rtisMatchGrid) IN
       IF BadCandidate(rtisCleaned, candidates)
       THEN /\ UNCHANGED <<finalResults, firstMatchedRtisIndex, lastMatchedRtisIndex, i>>
            /\ pc' = "failed"
            /\ error' = "TypeError"
       ELSE LET best == RowBest(masterDataRaw, i, rtisCleaned, candidates)
                row == RowResult(masterDataRaw, i, masterType, best, maxDistance,
                                 globalMPS, cautionOrders, trainLength)
            IN
            /\ finalResults' = Append(finalResults, row)
            /\ firstMatchedRtisIndex' = FirstAfter(row, best)
            /\ lastMatchedRtisIndex' = LastAfter(row, best)
            /\ pc' = IF i = Len(masterDataRaw) THEN AfterMaster ELSE "master"
            /\ i' = IF i = Len(masterDataRaw) THEN 1 ELSE i + 1
            /\ error' = error
    /\ UNCHANGED <<home, inputs, rtisCleaned, signalResults, signalHistory, outputs>>

\* 5. one iteration of processDataset over the signal catalogue; after the last
\* row the signal history is built
ProcessSignalRow ==
    /\ pc = "signals"
    /\ IF RowSkipped(signalsDataRaw, i)
       THEN /\ UNCHANGED <<firstMatchedRtisIndex, lastMatchedRtisIndex, error>>
            /\ signalResults' = signalResults
            /\ signalHistory' = IF i = Len(signalsDataRaw)
                                 THEN SignalHistoryOf(signalResults) ELSE signalHistory
            /\ pc' = IF i = Len(signalsDataRaw) THEN "section" ELSE "signals"
            /\ i' = IF i = Len(signalsDataRaw) THEN 1 ELSE i + 1
       ELSE LET candidates == RowCandidates(signalsDataRaw, i, rtisMatchGrid) IN
       IF BadCandidate(rtisCleaned, candidates)
       THEN /\ UNCHANGED <<signalResults, signalHistory, firstMatchedRtisIndex,
                           lastMatchedRtisIndex, i>>
            /\ pc' = "failed"
            /\ error' = "TypeError"
       ELSE LET best == RowBest(signalsDataRaw, i, rtisCleaned, candidates)
                row == RowResult(signalsDataRaw, i, "Signal", best, maxDistance,
                                 globalMPS, cautionOrders, trainLength)
            IN
            /\ signalResults' = Append(signalResults, row)
            /\ signalHistory' = IF i = Len(signalsDataRaw)
                                 THEN SignalHistoryOf(signalResults') ELSE signalHistory
            /\ firstMatchedRtisIndex' = FirstAfter(row, best)
            /\ lastMatchedRtisIndex' = LastAfter(row, best)
            /\ pc' = IF i = Len(signalsDataRaw) THEN "section" ELSE "signals"
            /\ i' = IF i = Len(signalsDataRaw) THEN 1 ELSE i + 1
            /\ error' = error
    /\ UNCHANGED <<home, inputs, rtisCleaned, finalResults, outputs>>

\* 6. Valid Section Logic
CutValidSection ==
    /\ pc = "section"
    /\ validSectionData' =
           ValidSection(rtisCleaned, firstMatchedRtisIndex, lastMatchedRtisIndex)
    /\ pc' = "brake"
    /\ UNCHANGED <<home, inputs, i, error, matching, brakeTests, stoppages, haltViolations, summary>>

\* 7. Brake Tests (BFT/BPT)
DetectBrakeTests ==
    /\ pc = "brake"
    /\ brakeTests' = BrakeTestsOf(validSectionData, finalResults)
    /\ pc' = "stoppages"
    /\ UNCHANGED <<home, inputs, i, error, matching, validSectionData, stoppages,
                   haltViolations, summary>>

\* 8. Stoppages
DetectStoppages ==
    /\ pc = "stoppages"
    /\ stoppages' = StoppagesOf(validSectionData, signalResults)
    /\ pc' = "halt"
    /\ UNCHANGED <<home, inputs, i, error, matching, validSectionData, brakeTests,
                   haltViolations, summary>>

\* 8. Halt Violations
DetectHaltViolations ==
    /\ pc = "halt"
    /\ haltViolations' = HaltViolationsOf(validSectionData, stoppages, signalHistory)
    /\ pc' = "summary"
    /\ UNCHANGED <<home, inputs, i, error, matching, validSectionData, brakeTests,
                   stoppages, summary>>

\* 9. Summary, and the return
Summarize ==
    /\ pc = "summary"
    /\ summary' = SummaryOf(finalResults, validSectionData, globalMPS, trainType,
                            stoppages, brakeTests, haltViolations)
    /\ pc' = "done"
    /\ UNCHANGED <<home, inputs, i, error, matching, validSectionData, brakeTests,
                   stoppages, haltViolations>>

Next ==
    \/ PrepareTelemetry
    \/ ProcessMasterRow
    \/ ProcessSignalRow
    \/ CutValidSection
    \/ DetectBrakeTests
    \/ DetectStoppages
    \/ DetectHaltViolations
    \/ Summarize

\* ---------------------------------------------------------------- the page
\* Home.runIntegratedAnalysis of src/app/page.tsx: the analysis the page runs on
\* the uploaded files.  A file is the sequence of its data rows; a row has lat,
\* lon, speed (NaN: no such column), time (the text of its time cell) and label
\* (NoLabel: no location column).  An instant is a number of seconds since the
\* epoch; an ISO string is the instant it denotes.

\* seconds of one day
Day == 86400

\* the time cell of a row: kind "none" (no time column, or an empty cell), "slash"
\* (DD/MM/YYYY hh:mm:ss of day and sec), "clock" (hh:mm:ss of sec), "iso" (a date
\* text new Date understands, of day and sec), "bad" (a text that is no date)
TimeCell(kind, day, sec) == [kind |-> kind, day |-> day, sec |-> sec]

\* safeIsoTime of a row whose time cell is rawTime, new Date() returning now
safeIsoTime(rawTime, now) ==
    IF rawTime.kind = "slash" THEN rawTime.day * Day + rawTime.sec
    ELSE IF rawTime.kind = "clock" THEN (now \div Day) * Day + rawTime.sec
    ELSE IF rawTime.kind = "iso" THEN rawTime.day * Day + rawTime.sec
    ELSE now

\* the location cell of a row of a file without a location column
NoLabel == [name |-> "none", n |-> 0]

\* the location of a row of a file without a location column: `GPS-${i}`
GpsName(n) == [name |-> "GPS", n |-> n]

\* parseCSV(file), the clock read at row k returning nows[k]
parseCSV(file, nows) ==
    LET parsed == [k \in 1..Len(file) |->
                     [id |-> k - 1,
                      location |-> IF file[k].label = NoLabel THEN GpsName(k - 1)
                                   ELSE file[k].label,
                      latitude |-> file[k].lat,
                      longitude |-> file[k].lon,
                      speed_kmph |-> IF isNaN(file[k].speed) THEN 0 ELSE file[k].speed,
                      logging_time |-> safeIsoTime(file[k].time, nows[k]),
                      matched |-> FALSE,
                      source |-> "GPS",
                      distanceToMast |-> Infinity]]
        Kept(p) == ~isNaN(p.latitude) /\ ~isNaN(p.longitude)
    IN  SelectSeq(parsed, Kept)

\* getDistance of the page: the haversine distance on the same sphere
pageDistance(lat1, lon1, lat2, lon2) == Abs(lat2 - lat1)

\* [...data].sort by logging_time: stable, ascending
RECURSIVE InsertPoint(_, _)
InsertPoint(s, p) ==
    IF s = <<>> \/ s[Len(s)].logging_time <= p.logging_time THEN Append(s, p)
    ELSE Append(InsertPoint(SubSeq(s, 1, Len(s) - 1), p), s[Len(s)])

RECURSIVE SortPoints(_, _)
SortPoints(s, acc) ==
    IF Len(acc) = Len(s) THEN acc
    ELSE SortPoints(s, InsertPoint(acc, s[Len(acc) + 1]))

\* Number(durationMin.toFixed(1)) of a duration in seconds, in tenths of a minute
DurationTenths(seconds) == RoundDiv(seconds, 6)

\* the loop of analyzeHaltsAndBrakeTests at sorted[k]; stopStart and
\* speedDropStart are positions in sorted, 0 for null
RECURSIVE HaltsLoop(_, _, _, _, _)
HaltsLoop(sorted, k, stopStart, speedDropStart, acc) ==
    IF k > Len(sorted) THEN acc
    ELSE LET point == sorted[k]
             speed == point.speed_kmph
             closes == speed >= 2 /\ stopStart # 0
             long == closes /\ point.logging_time - sorted[stopStart].logging_time > 15
             stop == [location |-> sorted[stopStart].location,
                      arrivalTime |-> sorted[stopStart].logging_time,
                      departureTime |-> point.logging_time,
                      durationMin |-> DurationTenths(point.logging_time
                                                     - sorted[stopStart].logging_time)]
             bpt == [type |-> "BPT", status |-> "proper", testSpeed |-> 0, finalSpeed |-> 0,
                     location |-> sorted[stopStart].location,
                     timestamp |-> sorted[stopStart].logging_time]
             stopStart1 == IF speed < 2 THEN (IF stopStart = 0 THEN k ELSE stopStart)
                           ELSE 0
             drops == k > 1 /\ sorted[k - 1].speed_kmph > 20 /\ speed < sorted[k - 1].speed_kmph
             rises == k > 1 /\ ~drops /\ speed > sorted[k - 1].speed_kmph /\ speedDropStart # 0
             tested == rises /\ sorted[speedDropStart].speed_kmph - sorted[k - 1].speed_kmph > 8
                             /\ sorted[k - 1].speed_kmph > 10
             bft == [type |-> "BFT", status |-> "proper",
                     testSpeed |-> sorted[speedDropStart].speed_kmph,
                     finalSpeed |-> sorted[k - 1].speed_kmph,
                     location |-> sorted[speedDropStart].location,
                     timestamp |-> sorted[speedDropStart].logging_time]
             speedDropStart1 == IF drops THEN (IF speedDropStart = 0 THEN k - 1
                                               ELSE speedDropStart)
                                ELSE IF rises THEN 0 ELSE speedDropStart
             acc1 == [stoppages |-> IF long THEN Append(acc.stoppages, stop)
                                    ELSE acc.stoppages,
                      brakeTests |-> (IF long THEN Append(acc.brakeTests, bpt)
                                      ELSE acc.brakeTests)
                                     \o (IF tested THEN <<bft>> ELSE <<>>)]
         IN  HaltsLoop(sorted, k + 1, stopStart1, speedDropStart1, acc1)

analyzeHaltsAndBrakeTests(data) ==
    HaltsLoop(SortPoints(data, <<>>), 1, 0, 0, [stoppages |-> <<>>, brakeTests |-> <<>>])

\* the loop over oheData for one gps point: [ohe, minD], ohe = 0 for null
RECURSIVE NearestOheLoop(_, _, _, _, _)
NearestOheLoop(gps, oheData, maxD, k, best) ==
    IF k > Len(oheData) THEN best
    ELSE LET d == pageDistance(gps.latitude, gps.longitude,
                               oheData[k].latitude, oheData[k].longitude)
         IN  NearestOheLoop(gps, oheData, maxD, k + 1,
                            IF d < best.minD /\ d <= maxD
                            THEN [ohe |-> k, minD |-> d] ELSE best)

\* oheMatches after the points from k on: the values of the Map in the order of
\* the first insertion of their keys
RECURSIVE MatchLoop(_, _, _, _, _)
MatchLoop(filteredGps, oheData, maxD, k, oheMatches) ==
    IF k > Len(filteredGps) THEN oheMatches
    ELSE LET gps == filteredGps[k]
             best == NearestOheLoop(gps, oheData, maxD, 1, [ohe |-> 0, minD |-> Infinity])
             key == oheData[best.ohe].location
             held == {m \in 1..Len(oheMatches) : oheMatches[m].location = key}
             value == [gps EXCEPT !.location = key, !.matched = TRUE,
                                  !.distanceToMast = best.minD]
         IN  IF best.ohe = 0
             THEN MatchLoop(filteredGps, oheData, maxD, k + 1, oheMatches)
             ELSE IF held = {}
             THEN MatchLoop(filteredGps, oheData, maxD, k + 1, Append(oheMatches, value))
             ELSE MatchLoop(filteredGps, oheData, maxD, k + 1,
                            [m \in 1..Len(oheMatches) |->
                                IF m \in held /\ best.minD < oheMatches[m].distanceToMast
                                THEN value ELSE oheMatches[m]])

\* 3. Match Logic: one point per OHE, or every point when there is no OHE file
MatchOhe(filteredGps, oheData, maxD) ==
    IF Len(oheData) > 0
    THEN SortPoints(MatchLoop(filteredGps, oheData, maxD, 1, <<>>), <<>>)
    ELSE [k \in 1..Len(filteredGps) |->
             [filteredGps[k] EXCEPT !.distanceToMast = 0, !.matched = FALSE]]

\* the limit of a point: the last caution order that names its location
RECURSIVE PageLimitLoop(_, _, _, _)
PageLimitLoop(point, orders, k, limit) ==
    IF k > Len(orders) THEN limit
    ELSE PageLimitLoop(point, orders, k + 1,
                       IF point.location = orders[k].startOhe
                          \/ point.location = orders[k].endOhe
                       THEN orders[k].speedLimit ELSE limit)

\* 4. the limit and the status of every point
ApplyLimits(finalDisplayData, mps, orders) ==
    [k \in 1..Len(finalDisplayData) |->
        LET point == finalDisplayData[k]
            limit == PageLimitLoop(point, orders, 1, mps)
            speed == point.speed_kmph
        IN  [id |-> point.id, location |-> point.location,
             latitude |-> point.latitude, longitude |-> point.longitude,
             speed_kmph |-> speed, logging_time |-> point.logging_time,
             matched |-> point.matched, distanceToMast |-> point.distanceToMast,
             limit_applied |-> limit,
             status |-> IF speed <= limit THEN "ok"
                        ELSE IF speed < limit + 4 THEN "warning" ELSE "violation",
             source |-> "GPS"]]

\* the argument of setResults
ResultsOf(finalDisplayData, oheData, signalData, halts, mps) ==
    [results |-> finalDisplayData,
     signals |-> [k \in 1..Len(signalData) |->
                    [id |-> signalData[k].id, location |-> signalData[k].location,
                     latitude |-> signalData[k].latitude,
                     longitude |-> signalData[k].longitude,
                     speed_kmph |-> signalData[k].speed_kmph,
                     logging_time |-> signalData[k].logging_time,
                     distanceToMast |-> signalData[k].distanceToMast,
                     source |-> "Signal", matched |-> TRUE, status |-> "ok"]],
     summary |-> [total_structures |-> Len(oheData),
                  matched_structures |-> Len(finalDisplayData),
                  match_rate |-> IF Len(oheData) > 0
                                 THEN Ratio(Len(finalDisplayData) * 100, Len(oheData))
                                 ELSE Ratio(0, 1),
                  violation_count |-> CountStatus(finalDisplayData, "violation"),
                  warning_count |-> CountStatus(finalDisplayData, "warning"),
                  config_mps |-> mps,
                  brake_tests |-> halts.brakeTests,
                  stoppages |-> halts.stoppages,
                  halt_approach_violations |-> <<>>]]

\* the time filter is on: both times are given
TimeFilterOn == departureTime # Null /\ arrivalTime # Null

\* gpsData.filter by the window
FilterByWindow(gpsData, start, end) ==
    LET Inside(p) == p.logging_time >= start /\ p.logging_time <= end
    IN  SelectSeq(gpsData, Inside)

\* the clock readings of one run: one for each row of the three files, in the
\* order the rows are parsed, never going back
Readings(instants) ==
    LET n == Len(rtisDataRaw) + Len(oheDataRaw) + Len(signalsDataRaw)
    IN  {c \in [1..n -> instants] : \A a, b \in 1..n : a <= b => c[a] <= c[b]}

\* the readings of c that fall to the rows of the file after skip rows
ReadingsFor(c, skip, file) == [k \in 1..Len(file) |-> c[skip + k]]

gpsDataOf(c) == parseCSV(rtisDataRaw, ReadingsFor(c, 0, rtisDataRaw))

oheDataOf(c) == parseCSV(oheDataRaw, ReadingsFor(c, Len(rtisDataRaw), oheDataRaw))

signalDataOf(c) ==
    parseCSV(signalsDataRaw,
             ReadingsFor(c, Len(rtisDataRaw) + Len(oheDataRaw), signalsDataRaw))

\* the instants new Date() returns in the model: two of one day, one of the next
ClockInstants == {10 * Day + 1000, 10 * Day + 1001, 11 * Day + 1000}

\* the catch of runIntegratedAnalysis: the status is the error's message
PageThrow(message) ==
    /\ pc' = "error"
    /\ error' = message
    /\ UNCHANGED home

\* the three files parsed; the run button is enabled only with a telemetry file
ParseFiles ==
    /\ pc = "parse"
    /\ \E c \in Readings(ClockInstants) :
         /\ home' = [home EXCEPT !.gpsData = gpsDataOf(c),
                                 !.oheData = oheDataOf(c),
                                 !.signalData = signalDataOf(c)]
         /\ pc' = IF gpsDataOf(c) = <<>> THEN "error" ELSE "filter"
         /\ error' = IF gpsDataOf(c) = <<>> THEN "RTIS CSV is empty." ELSE error
    /\ UNCHANGED <<inputs, i, matching, outputs>>

\* 1. Filter by Time
FilterGps ==
    /\ pc = "filter"
    /\ IF TimeFilterOn /\ arrivalTime <= departureTime
       THEN PageThrow("End Time must be after Start Time. Please correct the dates.")
       ELSE IF TimeFilterOn
               /\ FilterByWindow(home.gpsData, departureTime, arrivalTime) = <<>>
       THEN PageThrow("Time filter removed all points. Check your dates.")
       ELSE /\ home' = [home EXCEPT !.filteredGps =
                           IF TimeFilterOn
                           THEN FilterByWindow(home.gpsData, departureTime, arrivalTime)
                           ELSE home.gpsData]
            /\ pc' = "halts"
            /\ error' = error
    /\ UNCHANGED <<inputs, i, matching, outputs>>

\* 2. Calculate Halts & Brake Tests
FindHalts ==
    /\ pc = "halts"
    /\ home' = [home EXCEPT !.halts = analyzeHaltsAndBrakeTests(home.filteredGps)]
    /\ pc' = "match"
    /\ UNCHANGED <<inputs, i, error, matching, outputs>>

\* 3. Match Logic
MatchMasts ==
    /\ pc = "match"
    /\ home' = [home EXCEPT !.finalDisplayData =
                   MatchOhe(home.filteredGps, home.oheData, maxDistance)]
    /\ pc' = "limits"
    /\ UNCHANGED <<inputs, i, error, matching, outputs>>

\* 4. the limits and the statuses
LimitPoints ==
    /\ pc = "limits"
    /\ home' = [home EXCEPT !.finalDisplayData =
                   ApplyLimits(home.finalDisplayData, globalMPS, cautionOrders)]
    /\ pc' = "publish"
    /\ UNCHANGED <<inputs, i, error, matching, outputs>>

\* setResults and the success status
Publish ==
    /\ pc = "publish"
    /\ home' = [home EXCEPT !.results =
                   ResultsOf(home.finalDisplayData, home.oheData, home.signalData,
                             home.halts, globalMPS)]
    /\ pc' = "success"
    /\ UNCHANGED <<inputs, i, error, matching, outputs>>

NextPage ==
    \/ ParseFiles
    \/ FilterGps
    \/ FindHalts
    \/ MatchMasts
    \/ LimitPoints
    \/ Publish

\* ----------------------------------------------------------------- inputs

\* the latitude of the first mast of the modelled track: a cell boundary near 20 N
BaseLat == 2000 * CellM

At(d) == BaseLat + d

Lbl(km, pole) == [km |-> km, pole |-> pole, slash |-> TRUE]

Plain(km) == [km |-> km, pole |-> 0, slash |-> FALSE]

Asset(lat, label) == [lat |-> lat, lon |-> TrackLon, label |-> label]

Row(lat, speed, time) == [lat |-> lat, lon |-> TrackLon, speed |-> speed, time |-> time]

\* all sequences over S of length lo..hi
SeqsOf(S, lo, hi) == UNION {[1..n -> S] : n \in lo..hi}

OneSignal == <<Asset(At(0), Plain(1))>>

\* --- matching: few rows, in any time order, some of them dropped by cleaning

MaxRows == 3

MatchLats == {0, At(0), At(400), At(3000)}

MatchTimes == {1, 2}

MatchCatalogues ==
    {<<Asset(At(0), Lbl(962, 0))>>,
     <<Asset(At(0), Lbl(962, 0)), Asset(At(3000), Lbl(965, 0))>>,
     <<Asset(At(3000), Lbl(965, 0)), Asset(At(400), Lbl(962, 7))>>}

InitMatch ==
    /\ \E n \in 1..MaxRows :
         \E lats \in [1..n -> MatchLats], times \in [1..n -> MatchTimes] :
            rtisDataRaw = [k \in 1..n |-> Row(lats[k], 20 * k, times[k])]
    /\ oheDataRaw \in MatchCatalogues
    /\ signalsDataRaw \in {<<>>, OneSignal}
    /\ maxDistance \in {Null, 3000}
    /\ globalMPS = 100
    /\ cautionOrders = <<>>
    /\ trainType = "passenger"
    /\ \E w \in {<<Null, Null>>, <<2, Null>>, <<Null, 1>>} :
         departureTime = w[1] /\ arrivalTime = w[2]
    /\ Start

Spec == InitMatch /\ [][Next]_vars

\* --- limits: one mast matched at a chosen chainage, under caution orders

MaxOrders == 2

\* metres from the first mast to the sample matched to it
LimitOffsets == {-1, 0, 500, 600, 601, 700, 701}

LimitLabels == {Lbl(962, 0), Lbl(964, 0)}

LimitSpeeds == {30, 33, 34, 50, 100, 103, 104}

LimitOrders ==
    {[startOhe |-> Lbl(962, 0), endOhe |-> Lbl(964, 0), speedLimit |-> 30],
     [startOhe |-> Lbl(964, 0), endOhe |-> Lbl(962, 0), speedLimit |-> 30],
     [startOhe |-> Plain(964), endOhe |-> Lbl(964, 10), speedLimit |-> 50]}

InitLimit ==
    /\ \E d \in LimitOffsets, s \in LimitSpeeds :
         rtisDataRaw = <<Row(At(d), s, 1), Row(At(d + 100), 50, 2)>>
    /\ \E l \in LimitLabels :
         oheDataRaw = <<Asset(At(0), l), Asset(At(1000), Lbl(964, 11))>>
    /\ signalsDataRaw = OneSignal
    /\ maxDistance = 1000
    /\ globalMPS \in {40, 100}
    /\ cautionOrders \in SeqsOf(LimitOrders, 0, MaxOrders)
    /\ trainType \in {"passenger", "goods"}
    /\ departureTime = Null
    /\ arrivalTime = Null
    /\ Start

SpecLimit == InitLimit /\ [][Next]_vars

\* --- brake tests: a speed profile of runs of equal speed, one sample a second,
\* 10 m apart, with a mast at the first and at the last sample

RECURSIVE Expand(_)
Expand(runs) ==
    IF runs = <<>> THEN <<>>
    ELSE [k \in 1..Head(runs).len |-> Head(runs).speed] \o Expand(Tail(runs))

\* the length of the runs before run r
RECURSIVE LenBefore(_, _)
LenBefore(runs, r) == IF r <= 1 THEN 0 ELSE runs[r - 1].len + LenBefore(runs, r - 1)

\* the rows of a profile; the samples from index far on (0: none) lie gap metres
\* and more from the first sample
ProfileRows(profile, far, gap) ==
    [k \in 1..Len(profile) |->
        Row(IF far # 0 /\ k >= far THEN At(gap + 10 * (k - far)) ELSE At(10 * (k - 1)),
            profile[k], k)]

EndMasts(rows) ==
    <<Asset(rows[1].lat, Lbl(962, 0)), Asset(rows[Len(rows)].lat, Lbl(962, 1))>>

ProfileInit(rows) ==
    /\ rtisDataRaw = rows
    /\ oheDataRaw = EndMasts(rows)
    /\ signalsDataRaw = OneSignal
    /\ maxDistance = Null
    /\ globalMPS = 100
    /\ cautionOrders = <<>>
    /\ trainType = "passenger"
    /\ departureTime = Null
    /\ arrivalTime = Null
    /\ Start

MaxBftRuns == 3

BftRuns == [speed : {0, 6, 10, 12, 15, 16}, len : {1, 19}]

\* at most one run of a profile is a long one
OneLongRun(runs) ==
    \A a, b \in 1..Len(runs) : runs[a].len > 1 /\ runs[b].len > 1 => a = b

InitBft ==
    \E runs \in SeqsOf(BftRuns, 1, MaxBftRuns) :
        /\ OneLongRun(runs)
        /\ ProfileInit(ProfileRows(Expand(runs), 0, 0))

SpecBft == InitBft /\ [][Next]_vars

MaxBptRuns == 3

BptRuns == [speed : {0, 31, 60, 62}, len : {1, 59}]

InitBpt ==
    \E runs \in SeqsOf(BptRuns, 1, MaxBptRuns) :
        \E r \in {0} \cup ({2, Len(runs)} \cap 2..Len(runs)), gap \in {15000, 15001} :
            /\ OneLongRun(runs)
            /\ r = 0 => gap = 15000
            /\ ProfileInit(ProfileRows(Expand(runs),
                                       IF r = 0 THEN 0 ELSE LenBefore(runs, r) + 1, gap))

SpecBpt == InitBpt /\ [][Next]_vars

\* ------------------------------------------------------------ properties

SetMin(S) == CHOOSE m \in S : \A x \in S : m <= x

SetMax(S) == CHOOSE m \in S : \A x \in S : m >= x

Reverse(s) == [k \in 1..Len(s) |-> s[Len(s) + 1 - k]]

\* the matched OHE assets among the results
MatchedOhe == {k \in 1..Len(finalResults) :
                  finalResults[k].matched /\ finalResults[k].source = "OHE"}

\* the closed interval of a caution order, extended by len at its upper end
ZoneCovers(co, c, len) ==
    /\ Min2(oheToMeters(co.startOhe), oheToMeters(co.endOhe)) <= c
    /\ c <= Max2(oheToMeters(co.startOhe), oheToMeters(co.endOhe)) + len

CoveringOrders(c) ==
    {j \in 1..Len(cautionOrders) : ZoneCovers(cautionOrders[j], c, trainLength)}

\* C1: a matched OHE asset with speed s and applied limit L has status violation
\* exactly when s > L + 3, warning exactly when L < s <= L + 3, and ok exactly
\* when s <= L.
C1_StatusBoundary ==
    \A k \in MatchedOhe :
        LET s == finalResults[k].speed_kmph
            L == finalResults[k].limit_applied
            status == finalResults[k].status
        IN  /\ status = "violation" <=> s > L + 3
            /\ status = "warning" <=> (L < s /\ s <= L + 3)
            /\ status = "ok" <=> s <= L

\* with L = 100 a speed of 103 is a warning
C1_Witness ==
    \E k \in MatchedOhe :
        /\ finalResults[k].limit_applied = 100
        /\ finalResults[k].speed_kmph = 103
        /\ finalResults[k].status = "warning"

\* C2: the limit applied to a matched OHE asset is the minimum of globalMPS and
\* the limits of all caution zones that contain its chainage: never above
\* globalMPS, globalMPS when no zone covers the chainage, and the same for the
\* caution orders listed in the reverse order.
C2_LimitIsMinimum ==
    \A k \in MatchedOhe :
        LET r == finalResults[k]
            covering == CoveringOrders(r.chainage)
        IN  /\ r.limit_applied =
                  SetMin({globalMPS} \cup {cautionOrders[j].speedLimit : j \in covering})
            /\ r.limit_applied <= globalMPS
            /\ covering = {} => r.limit_applied = globalMPS
            /\ r.limit_applied =
                  getApplicableLimitLinear(r.chainage, globalMPS, Reverse(cautionOrders),
                                           trainLength)

\* two zones of different limits, the lower one listed first, cover the chainage
C2_Witness ==
    \E k \in MatchedOhe :
        \E a, b \in CoveringOrders(finalResults[k].chainage) :
            /\ a < b
            /\ cautionOrders[a].speedLimit < cautionOrders[b].speedLimit
            /\ cautionOrders[a].speedLimit < globalMPS
            /\ finalResults[k].limit_applied = cautionOrders[a].speedLimit

\* C3: a caution order applies to a chainage c exactly when c lies in the closed
\* interval [min(start, end), max(start, end) + trainLength], whichever label is
\* given first and for either train length: inside it the limit applied is at most
\* the order's, and a limit below globalMPS is the limit of an order whose
\* interval contains c.
C3_ZoneInterval ==
    \A k \in MatchedOhe :
        LET r == finalResults[k]
        IN  /\ \A j \in 1..Len(cautionOrders) :
                   ZoneCovers(cautionOrders[j], r.chainage, trainLengthOf(trainType))
                       => r.limit_applied <= cautionOrders[j].speedLimit
            /\ r.limit_applied < globalMPS =>
                   \E j \in 1..Len(cautionOrders) :
                       /\ ZoneCovers(cautionOrders[j], r.chainage, trainLengthOf(trainType))
                       /\ cautionOrders[j].speedLimit = r.limit_applied

\* the order 964/0..962/0 for a 600 m train: it applies at 964600, the end of its
\* interval, and no longer at 964660
C3_Witness ==
    /\ trainType = "passenger"
    /\ cautionOrders =
           <<[startOhe |-> Lbl(964, 0), endOhe |-> Lbl(962, 0), speedLimit |-> 30]>>
    /\ \E a, b \in MatchedOhe :
           /\ finalResults[a].chainage = 964600
           /\ finalResults[a].limit_applied = 30
           /\ finalResults[b].chainage = 964660
           /\ finalResults[b].limit_applied = globalMPS

\* the results of both catalogues
AllResults == finalResults \o signalResults

\* the least distance from a point to a sample of the cleaned telemetry
MinDistance(lat, lon) ==
    IF rtisCleaned = <<>> THEN Infinity
    ELSE SetMin({getDistance(lat, lon, rtisCleaned[q].lat, rtisCleaned[q].lon) :
                    q \in 1..Len(rtisCleaned)})

\* the samples of the cleaned telemetry nearest to the asset of result r
NearestSamples(r) ==
    {q \in 1..Len(rtisCleaned) :
        getDistance(r.latitude, r.longitude, rtisCleaned[q].lat, rtisCleaned[q].lon)
            = MinDistance(r.latitude, r.longitude)}

\* C4: an asset is unmatched exactly when its least distance to a telemetry sample
\* exceeds the threshold (maxDistance when > 0, else 500); an unmatched asset has
\* no speed, no limit and status ok, counts in total_structures and
\* unmatched_structures and in neither violation_count nor warning_count; no
\* error is raised.
C4_UnmatchedRule ==
    /\ error # "TypeError"
    /\ \A k \in 1..Len(AllResults) :
           LET r == AllResults[k]
           IN  /\ ~r.matched <=>
                      MinDistance(r.latitude, r.longitude) > thresholdOf(maxDistance)
               /\ ~r.matched =>
                      r.speed_kmph = Null /\ r.limit_applied = Null /\ r.status = "ok"
    /\ pc = "done" =>
           /\ summary.total_structures = Len(finalResults)
           /\ summary.unmatched_structures =
                  Cardinality({k \in 1..Len(finalResults) : ~finalResults[k].matched})
           /\ summary.violation_count =
                  Cardinality({k \in 1..Len(finalResults) :
                                  finalResults[k].matched
                                  /\ finalResults[k].status = "violation"})
           /\ summary.warning_count =
                  Cardinality({k \in 1..Len(finalResults) :
                                  finalResults[k].matched
                                  /\ finalResults[k].status = "warning"})

\* C5: the speed and the timestamp of a matched asset are those of a sample at the
\* least distance from it among all cleaned samples, and the indices recorded for
\* the valid section are indices of such samples.
C5_NearestSample ==
    /\ \A k \in 1..Len(AllResults) :
           AllResults[k].matched =>
               \E q \in NearestSamples(AllResults[k]) :
                   /\ AllResults[k].speed_kmph = rtisCleaned[q].speed
                   /\ AllResults[k].logging_time = rtisCleaned[q].time
    /\ firstMatchedRtisIndex # Infinity =>
           \E k \in 1..Len(AllResults) :
               /\ AllResults[k].matched
               /\ \E q \in NearestSamples(AllResults[k]) :
                      rtisCleaned[q].idx = firstMatchedRtisIndex
    /\ lastMatchedRtisIndex # -1 =>
           \E k \in 1..Len(AllResults) :
               /\ AllResults[k].matched
               /\ \E q \in NearestSamples(AllResults[k]) :
                      rtisCleaned[q].idx = lastMatchedRtisIndex

\* the valid section has been cut
SectionCut == pc \in {"brake", "stoppages", "halt", "summary", "done"}

\* the raw indices of the samples matched to the rows of a catalogue
MatchedOf(data, type) ==
    {MatchedIdx(data, k) : k \in {j \in 1..Len(data) :
                                      ~RowSkipped(data, j) /\ RowOf(data, j, type).matched}}

\* the positions in the time-sorted telemetry of the samples matched to an asset
MatchedPositions ==
    LET idxs == MatchedOf(masterDataRaw, masterType) \cup
                (IF isOheMaster THEN MatchedOf(signalsDataRaw, "Signal") ELSE {})
    IN  {q \in 1..Len(rtisCleaned) : rtisCleaned[q].idx \in idxs}

\* C6: when an asset is matched, the valid section is the contiguous slice of the
\* time-sorted telemetry from the first to the last matched sample, for any order
\* of the telemetry rows.
C6_ContiguousSlice ==
    SectionCut /\ MatchedPositions # {} =>
        validSectionData = SubSeq(rtisCleaned, SetMin(MatchedPositions),
                                  SetMax(MatchedPositions))

\* the brake tests have been detected
BrakeDone == pc \in {"stoppages", "halt", "summary", "done"}

BftRecords == LET IsBft(b) == b.type = "BFT" IN SelectSeq(brakeTests, IsBft)

BptRecords == LET IsBpt(b) == b.type = "BPT" IN SelectSeq(brakeTests, IsBpt)

\* the least speed among the n samples of vs from sample a on
WindowMinimum(vs, a, n) == SetMin({vs[j].speed : j \in a..Min2(a + n - 1, Len(vs))})

\* the samples at which a brake feel test is seen
BftQualifying(vs) ==
    {a \in 1..Len(vs) : /\ vs[a].speed >= 10
                        /\ vs[a].speed <= 15
                        /\ WindowMinimum(vs, a, 20) <= vs[a].speed - 5}

\* the samples above 15 km/h
Above15(vs) == {a \in 1..Len(vs) : vs[a].speed > 15}

\* the samples at which a brake power test is seen
BptQualifying(vs) ==
    {a \in 1..Len(vs) : /\ vs[a].speed >= 60
                        /\ 2 * WindowMinimum(vs, a, 60) <= vs[a].speed}

\* sample a and all samples before it lie within 15000 m of the first sample
WithinRange(vs, a) ==
    \A j \in 1..a : getDistance(vs[1].lat, vs[1].lon, vs[j].lat, vs[j].lon) <= 15000

\* C7: when the first sample of a non-empty valid section is above 15 km/h, the
\* BFT result is a single record not_performed at that sample, with startSpeed
\* and lowestSpeed the entry speed and dropAmount 0, whatever the later samples.
C7_EntryRunning ==
    BrakeDone /\ validSectionData # <<>> /\ validSectionData[1].speed > 15 =>
        /\ Len(BftRecords) = 1
        /\ BftRecords[1].status = "not_performed"
        /\ BftRecords[1].startSpeed = validSectionData[1].speed
        /\ BftRecords[1].lowestSpeed = validSectionData[1].speed
        /\ BftRecords[1].dropAmount = 0
        /\ BftRecords[1].timestamp = validSectionData[1].time
        /\ BftRecords[1].location =
               findLocName(finalResults, validSectionData[1].lat, validSectionData[1].lon)

\* the section is entered at 16 km/h and a later sample shows a qualifying drop
C7_Witness ==
    /\ BrakeDone
    /\ validSectionData # <<>>
    /\ validSectionData[1].speed = 16
    /\ BftQualifying(validSectionData) # {}
    /\ Len(BftRecords) = 1
    /\ BftRecords[1].status = "not_performed"

\* C8: for an entry speed <= 15, the BFT result is proper at the first sample with
\* a speed in [10, 15] whose window of 20 samples, itself the first, has a minimum
\* of at most its speed less 5, when no earlier sample is above 15: startSpeed is
\* that sample's speed, lowestSpeed the window minimum, dropAmount their
\* difference, at least 5.
C8_ProperTest ==
    LET vs == validSectionData
        q == BftQualifying(vs)
        x == Above15(vs)
    IN  BrakeDone /\ vs # <<>> /\ vs[1].speed <= 15
        /\ q # {} /\ (x = {} \/ SetMin(q) < SetMin(x)) =>
            LET p == vs[SetMin(q)]
            IN  /\ Len(BftRecords) = 1
                /\ BftRecords[1].status = "proper"
                /\ BftRecords[1].startSpeed = p.speed
                /\ BftRecords[1].lowestSpeed = WindowMinimum(vs, SetMin(q), 20)
                /\ BftRecords[1].dropAmount = p.speed - WindowMinimum(vs, SetMin(q), 20)
                /\ BftRecords[1].dropAmount >= 5
                /\ BftRecords[1].timestamp = p.time

\* a trip that starts at 0 and drops from 12 to 6: proper, dropAmount 6
C8_Witness ==
    /\ BrakeDone
    /\ Len(validSectionData) = 3
    /\ validSectionData[1].speed = 0
    /\ validSectionData[2].speed = 12
    /\ validSectionData[3].speed = 6
    /\ Len(BftRecords) = 1
    /\ BftRecords[1].status = "proper"
    /\ BftRecords[1].dropAmount = 6

\* C9: for an entry speed <= 15, when a sample is above 15 km/h and no earlier
\* sample shows a qualifying test, the BFT result is improper at the first sample
\* above 15, wherever it lies in the valid section, the last sample included.
C9_ImproperAtCrossing ==
    LET vs == validSectionData
        q == BftQualifying(vs)
        x == Above15(vs)
    IN  BrakeDone /\ vs # <<>> /\ vs[1].speed <= 15
        /\ x # {} /\ (q = {} \/ SetMin(x) < SetMin(q)) =>
            /\ Len(BftRecords) = 1
            /\ BftRecords[1].status = "improper"
            /\ BftRecords[1].startSpeed = vs[SetMin(x)].speed
            /\ BftRecords[1].timestamp = vs[SetMin(x)].time

\* C10: in any valid section, when the first sample at 60 km/h or more whose
\* window of 60 samples has a minimum of at most half its speed lies within
\* 15000 m of the first sample, as do all samples before it, the brake tests hold
\* a BPT record proper with that sample's speed as startSpeed and the window
\* minimum as lowestSpeed.
C10_ProperPowerTest ==
    LET vs == validSectionData
        q == BptQualifying(vs)
    IN  BrakeDone /\ vs # <<>> /\ q # {} /\ WithinRange(vs, SetMin(q)) =>
            \E b \in 1..Len(BptRecords) :
                /\ BptRecords[b].status = "proper"
                /\ BptRecords[b].startSpeed = vs[SetMin(q)].speed
                /\ BptRecords[b].lowestSpeed = WindowMinimum(vs, SetMin(q), 60)

\* C10, for a valid section entered at 15 km/h or less: when the first sample at
\* 60 km/h or more whose window of 60 samples has a minimum of at most half its
\* speed lies within 15000 m of the first sample, as do all samples before it,
\* the brake tests hold a BPT record proper with that sample's speed as
\* startSpeed and the window minimum as lowestSpeed.
C10_ProperPowerTestFromRest ==
    LET vs == validSectionData
        q == BptQualifying(vs)
    IN  BrakeDone /\ vs # <<>> /\ vs[1].speed <= 15
        /\ q # {} /\ WithinRange(vs, SetMin(q)) =>
            \E b \in 1..Len(BptRecords) :
                /\ BptRecords[b].status = "proper"
                /\ BptRecords[b].startSpeed = vs[SetMin(q)].speed
                /\ BptRecords[b].lowestSpeed = WindowMinimum(vs, SetMin(q), 60)

\* a section entered at rest reaches 62 km/h and falls to 31 km/h, half of it, at
\* the last sample of the window
C10_Witness ==
    /\ BrakeDone
    /\ validSectionData # <<>>
    /\ validSectionData[1].speed = 0
    /\ BptQualifying(validSectionData) # {}
    /\ LET a == SetMin(BptQualifying(validSectionData))
       IN  /\ WithinRange(validSectionData, a)
           /\ a + 59 <= Len(validSectionData)
           /\ \A j \in a..(a + 58) : validSectionData[j].speed = 62
           /\ validSectionData[a + 59].speed = 31
    /\ \E b \in 1..Len(BptRecords) :
           /\ BptRecords[b].status = "proper"
           /\ BptRecords[b].startSpeed = 62
           /\ BptRecords[b].lowestSpeed = 31

\* the samples reached before the scan of the brake power test stops
Eligible(vs) == {a \in 1..Len(vs) : WithinRange(vs, a)}

\* the eligible samples at 60 km/h or more
Reached60(vs) == {a \in Eligible(vs) : vs[a].speed >= 60}

\* every improper BPT record is at a sample of 60 km/h or more within 15000 m
ImproperInRange(vs) ==
    \A b \in 1..Len(BptRecords) :
        BptRecords[b].status = "improper" =>
            \E a \in 1..Len(vs) :
                /\ vs[a].time = BptRecords[b].timestamp
                /\ vs[a].speed >= 60
                /\ getDistance(vs[1].lat, vs[1].lon, vs[a].lat, vs[a].lon) <= 15000

\* the single BPT record is improper at sample a
ImproperAt(vs, a) ==
    /\ Len(BptRecords) = 1
    /\ BptRecords[1].status = "improper"
    /\ BptRecords[1].startSpeed = vs[a].speed
    /\ BptRecords[1].lowestSpeed = vs[a].speed
    /\ BptRecords[1].dropAmount = 0
    /\ BptRecords[1].timestamp = vs[a].time

\* C11: when no eligible sample shows a qualifying 50% drop and some eligible
\* sample is at 60 km/h or more, the BPT result is improper at the first eligible
\* sample at 60 km/h or more; a sample at 60 km/h or more beyond 15000 m never
\* gives an improper record.
C11_ImproperPowerTest ==
    LET vs == validSectionData
    IN  BrakeDone /\ vs # <<>> =>
            /\ Reached60(vs) # {} /\ Eligible(vs) \cap BptQualifying(vs) = {}
                   => ImproperAt(vs, SetMin(Reached60(vs)))
            /\ ImproperInRange(vs)

\* C11, for a valid section entered at 15 km/h or less: when no eligible sample
\* shows a qualifying 50% drop and some eligible sample is at 60 km/h or more, the
\* BPT result is improper at the first eligible sample at 60 km/h or more; in any
\* valid section a sample at 60 km/h or more beyond 15000 m never gives an
\* improper record.
C11_ImproperPowerTestFromRest ==
    LET vs == validSectionData
    IN  BrakeDone /\ vs # <<>> =>
            /\ vs[1].speed <= 15 /\ Reached60(vs) # {}
               /\ Eligible(vs) \cap BptQualifying(vs) = {}
                   => ImproperAt(vs, SetMin(Reached60(vs)))
            /\ ImproperInRange(vs)

\* a section entered at rest reaches 60 km/h, then 62 km/h, without a drop
C11_Witness ==
    /\ BrakeDone
    /\ Len(validSectionData) >= 3
    /\ validSectionData[1].speed = 0
    /\ validSectionData[2].speed = 60
    /\ validSectionData[Len(validSectionData)].speed = 62
    /\ Eligible(validSectionData) \cap BptQualifying(validSectionData) = {}
    /\ ImproperAt(validSectionData, 2)

\* no sample within 15000 m of the first sample is at 60 km/h or more
Never60InRange(vs) ==
    \A a \in 1..Len(vs) :
        getDistance(vs[1].lat, vs[1].lon, vs[a].lat, vs[a].lon) <= 15000
            => vs[a].speed < 60

\* C12: when no sample within 15000 m of the first sample of the valid section is
\* at 60 km/h or more, the brake tests hold no BPT record at all, for every valid
\* section, those entered above 15 km/h included.
C12_NoRecord ==
    BrakeDone /\ validSectionData # <<>> /\ Never60InRange(validSectionData) =>
        BptRecords = <<>>

\* C12, for a valid section entered at 15 km/h or less: when no sample within
\* 15000 m of its first sample is at 60 km/h or more, the brake tests hold no BPT
\* record at all; for a section entered above 15 km/h they hold the single BPT
\* record not_performed at the entry sample.
C12_NoRecordFromRest ==
    LET vs == validSectionData
    IN  BrakeDone /\ vs # <<>> =>
            /\ vs[1].speed <= 15 /\ Never60InRange(vs) => BptRecords = <<>>
            /\ vs[1].speed > 15 =>
                   /\ Len(BptRecords) = 1
                   /\ BptRecords[1].status = "not_performed"
                   /\ BptRecords[1].startSpeed = vs[1].speed
                   /\ BptRecords[1].timestamp = vs[1].time

\* a section entered at rest reaches 60 km/h only beyond 15000 m: no BPT record
C12_Witness ==
    /\ BrakeDone
    /\ validSectionData # <<>>
    /\ validSectionData[1].speed = 0
    /\ Never60InRange(validSectionData)
    /\ \E a \in 1..Len(validSectionData) : validSectionData[a].speed >= 60
    /\ BptRecords = <<>>

\* --- stoppages: samples 50 m apart, at rest or at 16 km/h, each 0, 30 or 31 s
\* after the one before; a signal 50 m before the first sample

MaxStopRows == 5

StopSpeeds == {0, 16}

StopSteps == {0, 30, 31}

\* the time of sample k: the steps up to it, after time 1
RECURSIVE TimeOf(_, _)
TimeOf(steps, k) == IF k <= 1 THEN 1 ELSE steps[k] + TimeOf(steps, k - 1)

StopRows(speeds, steps) ==
    [k \in 1..Len(speeds) |-> Row(At(50 * (k - 1)), speeds[k], TimeOf(steps, k))]

InitStop ==
    /\ \E n \in 2..MaxStopRows :
         \E speeds \in [1..n -> StopSpeeds], steps \in [1..n -> StopSteps] :
            /\ steps[1] = 0
            /\ rtisDataRaw = StopRows(speeds, steps)
    /\ oheDataRaw = EndMasts(rtisDataRaw)
    /\ signalsDataRaw = <<Asset(At(-50), Plain(1))>>
    /\ maxDistance = Null
    /\ globalMPS = 100
    /\ cautionOrders = <<>>
    /\ trainType = "passenger"
    /\ departureTime = Null
    /\ arrivalTime = Null
    /\ Start

SpecStop == InitStop /\ [][Next]_vars

\* the stoppages have been detected
StopsDone == pc \in {"halt", "summary", "done"}

\* the first samples of the maximal runs of zero speed
RunStarts(vs) ==
    {a \in 1..Len(vs) : vs[a].speed = 0 /\ (a = 1 \/ vs[a - 1].speed # 0)}

\* the samples after a at which the train moves
MovingAfter(vs, a) == {j \in (a + 1)..Len(vs) : vs[j].speed # 0}

\* the sample that ends the run started at a
RunEnd(vs, a) == SetMin(MovingAfter(vs, a))

\* the duration of the run started at a, from its first sample at rest to the
\* first sample moving again
RunDuration(vs, a) == vs[RunEnd(vs, a)].time - vs[a].time

\* the runs that have ended and lasted more than 30 s
LongRuns(vs) ==
    {a \in RunStarts(vs) : MovingAfter(vs, a) # {} /\ RunDuration(vs, a) > 30}

\* the position among the long runs of the one started at a
RankOf(vs, a) == Cardinality({x \in LongRuns(vs) : x <= a})

\* C13: a run of zero-speed samples of the valid section is reported as a
\* stoppage exactly when the time from its first sample to the first sample
\* moving again is more than 30 s (30 s: not reported, 31 s: reported); the
\* stoppages are these runs in order, each with the time of its first sample as
\* arrivalTime.
C13_StoppageThreshold ==
    LET vs == validSectionData
    IN  StopsDone =>
            /\ Len(stoppages) = Cardinality(LongRuns(vs))
            /\ \A a \in LongRuns(vs) :
                   /\ stoppages[RankOf(vs, a)].arrivalTime = vs[a].time
                   /\ stoppages[RankOf(vs, a)].departureTime = vs[RunEnd(vs, a)].time
                   /\ stoppages[RankOf(vs, a)].latitude = vs[a].lat
            /\ \A k \in 1..Len(stoppages) :
                   stoppages[k].departureTime - stoppages[k].arrivalTime > 30

\* two runs of one sample each: the first moves again after 30 s and is not
\* reported, the second after 31 s and is
C13_Witness ==
    /\ StopsDone
    /\ Len(validSectionData) = 4
    /\ validSectionData[1].speed = 0
    /\ validSectionData[2].speed # 0
    /\ validSectionData[2].time - validSectionData[1].time = 30
    /\ validSectionData[3].speed = 0
    /\ validSectionData[4].speed # 0
    /\ validSectionData[4].time - validSectionData[3].time = 31
    /\ Len(stoppages) = 1
    /\ stoppages[1].arrivalTime = validSectionData[3].time

\* --- halt approach: samples 50 or 51 m apart, at rest, at 15 or at 16 km/h, each
\* 31 s after the one before or at the same logging time; one signal, 50 or 150 m
\* before the first sample

MaxHaltRows == 4

HaltSpeeds == {0, 15, 16}

HaltSteps == {0, 31}

HaltRows(speeds, steps, spacing) ==
    [k \in 1..Len(speeds) |-> Row(At(spacing * (k - 1)), speeds[k], TimeOf(steps, k))]

InitHalt ==
    /\ \E n \in 2..MaxHaltRows, spacing \in {50, 51} :
         \E speeds \in [1..n -> HaltSpeeds], steps \in [1..n -> HaltSteps] :
            /\ steps[1] = 0
            /\ rtisDataRaw = HaltRows(speeds, steps, spacing)
    /\ oheDataRaw = EndMasts(rtisDataRaw)
    /\ signalsDataRaw \in {<<Asset(At(-50), Plain(1))>>, <<Asset(At(-150), Plain(1))>>}
    /\ maxDistance = Null
    /\ globalMPS = 100
    /\ cautionOrders = <<>>
    /\ trainType = "passenger"
    /\ departureTime = Null
    /\ arrivalTime = Null
    /\ Start

SpecHalt == InitHalt /\ [][Next]_vars

\* the halt approach violations have been detected
HaltDone == pc \in {"summary", "done"}

\* the unbroken run of samples before sample a within 100 m of it
ApproachRun(vs, a) ==
    {j \in 1..(a - 1) :
        \A m \in j..(a - 1) : getDistance(vs[a].lat, vs[a].lon, vs[m].lat, vs[m].lon) <= 100}

\* the samples of the approach run above 15 km/h
Offenders(vs, a) == {j \in ApproachRun(vs, a) : vs[j].speed > 15}

\* the reported runs whose stoppage is tagged isSignal
SignalRuns(vs) == {a \in LongRuns(vs) : stoppages[RankOf(vs, a)].isSignal}

\* the signal stoppages approached above 15 km/h
FastApproaches(vs) == {a \in SignalRuns(vs) : Offenders(vs, a) # {}}

ApproachRecords ==
    LET IsApproach(h) == h.checkpoint = "100m Approach"
    IN  SelectSeq(haltViolations, IsApproach)

\* C14: a stoppage tagged isSignal has a 100m Approach violation, with limit 15,
\* exactly when a sample of the unbroken run of samples before its arrival sample
\* within 100 m of the stop is above 15 km/h, and it has at most one; a stoppage
\* not tagged isSignal has no halt approach violation.
C14_ApproachCheck ==
    LET vs == validSectionData
    IN  HaltDone =>
            /\ Len(ApproachRecords) = Cardinality(FastApproaches(vs))
            /\ \A h \in 1..Len(ApproachRecords) :
                   /\ ApproachRecords[h].limit = 15
                   /\ ApproachRecords[h].actualSpeed > 15
            /\ \A h \in 1..Len(haltViolations) :
                   \E k \in 1..Len(stoppages) :
                       /\ stoppages[k].isSignal
                       /\ stoppages[k].location = haltViolations[h].haltLocation

\* --- signal history: samples 31 s apart, 1000 m apart with a signal at each, or
\* 250 m apart with a signal 150 m past each; the signals listed along the track
\* or against it

MaxHistRows == 4

HistSpeeds == {0, 60, 61, 100, 101}

HistLayouts == {[spacing |-> 1000, ahead |-> 0], [spacing |-> 250, ahead |-> 150]}

HistRows(speeds, spacing) ==
    [k \in 1..Len(speeds) |-> Row(At(spacing * (k - 1)), speeds[k], 31 * k)]

HistSignals(n, layout) ==
    [k \in 1..n |-> Asset(At(layout.spacing * (k - 1) + layout.ahead), Plain(k))]

InitHist ==
    /\ \E n \in 3..MaxHistRows, layout \in HistLayouts :
         /\ \E speeds \in [1..n -> HistSpeeds] : rtisDataRaw = HistRows(speeds, layout.spacing)
         /\ signalsDataRaw \in {HistSignals(n, layout), Reverse(HistSignals(n, layout))}
    /\ oheDataRaw = EndMasts(rtisDataRaw)
    /\ maxDistance = Null
    /\ globalMPS = 100
    /\ cautionOrders = <<>>
    /\ trainType = "passenger"
    /\ departureTime = Null
    /\ arrivalTime = Null
    /\ Start

SpecHist == InitHist /\ [][Next]_vars

\* the matched signals that carry a logging time
Logged == {k \in 1..Len(signalResults) :
              signalResults[k].matched /\ signalResults[k].logging_time # Null}

\* signal x comes before signal y in the order of the matched timestamps,
\* signals of one timestamp in the order of the catalogue
Earlier(x, y) ==
    \/ signalResults[x].logging_time < signalResults[y].logging_time
    \/ signalResults[x].logging_time = signalResults[y].logging_time /\ x < y

\* the signals before signal y
Preceding(y) == {x \in Logged : Earlier(x, y)}

\* the latest of a non-empty set of signals
Latest(S) == CHOOSE x \in S : \A y \in S \ {x} : Earlier(y, x)

\* the earliest of a non-empty set of signals
Earliest(S) == CHOOSE x \in S : \A y \in S \ {x} : Earlier(x, y)

\* the entries of the signal of a stoppage logged up to the stop time
OwnEntries(stop) ==
    {k \in Logged : /\ signalResults[k].location = stop.location
                     /\ signalResults[k].logging_time <= stop.arrivalTime}

\* the signal stoppages with an entry before their own signal's, and with two
HasPrev1 ==
    {k \in 1..Len(stoppages) :
        /\ stoppages[k].isSignal
        /\ OwnEntries(stoppages[k]) # {}
        /\ Preceding(Earliest(OwnEntries(stoppages[k]))) # {}}

Prev1Of(k) == Latest(Preceding(Earliest(OwnEntries(stoppages[k]))))

HasPrev2 == {k \in HasPrev1 : Preceding(Prev1Of(k)) # {}}

Prev2Of(k) == Latest(Preceding(Prev1Of(k)))

\* the stoppages passed too fast at the signal before, and at the one before that
FastPrev1 == {k \in HasPrev1 : signalResults[Prev1Of(k)].speed_kmph > 60}

FastPrev2 == {k \in HasPrev2 : signalResults[Prev2Of(k)].speed_kmph > 100}

Prev1Records ==
    LET IsPrev1(h) == h.checkpoint = "Prev Signal"
    IN  SelectSeq(haltViolations, IsPrev1)

Prev2Records ==
    LET IsPrev2(h) == h.checkpoint = "2nd Prev Signal"
    IN  SelectSeq(haltViolations, IsPrev2)

\* the record of stoppage k is the one of its rank in S, about signal result x
RecordOf(records, S, k, x, limit) ==
    LET h == records[Cardinality({j \in S : j <= k})]
    IN  /\ h.haltLocation = stoppages[k].location
        /\ h.limit = limit
        /\ h.actualSpeed = signalResults[x].speed_kmph
        /\ h.timestamp = signalResults[x].logging_time

\* C15: with the matched signals in the order of their matched timestamps, a
\* signal stoppage whose signal is logged up to the stop time has a Prev Signal
\* violation, limit 60, exactly when the entry just before its signal's is above
\* 60 km/h, and a 2nd Prev Signal violation, limit 100, exactly when the entry
\* before that one is above 100 km/h; every halt approach violation has an
\* actualSpeed above its limit.
C15_PreviousSignals ==
    HaltDone =>
        /\ Len(Prev1Records) = Cardinality(FastPrev1)
        /\ \A k \in FastPrev1 : RecordOf(Prev1Records, FastPrev1, k, Prev1Of(k), 60)
        /\ Len(Prev2Records) = Cardinality(FastPrev2)
        /\ \A k \in FastPrev2 : RecordOf(Prev2Records, FastPrev2, k, Prev2Of(k), 100)
        /\ \A h \in 1..Len(haltViolations) :
               haltViolations[h].actualSpeed > haltViolations[h].limit

\* the signals are listed against the track; the train passes the first at 101
\* km/h and the second at 60 km/h and stops at the third: a 2nd Prev Signal
\* violation and no Prev Signal violation
C15_Witness ==
    /\ HaltDone
    /\ Len(signalsDataRaw) = 4
    /\ signalsDataRaw[1].label = Plain(4)
    /\ Len(stoppages) = 1
    /\ stoppages[1].location = Plain(3)
    /\ Prev1Records = <<>>
    /\ Len(Prev2Records) = 1
    /\ Prev2Records[1].actualSpeed = 101
    /\ \E k \in Logged : signalResults[k].location = Plain(2)
                          /\ signalResults[k].speed_kmph = 60

\* --- no match: every sample is dropped by the cleaning or lies 600 m and more
\* from the one mast and the one signal, in their grid cell or far from it

MaxFarRows == 3

FarLats == {0, At(600), At(5000)}

InitFar ==
    /\ \E n \in 1..MaxFarRows :
         \E lats \in [1..n -> FarLats], times \in [1..n -> MatchTimes] :
            rtisDataRaw = [k \in 1..n |-> Row(lats[k], 20 * k, times[k])]
    /\ oheDataRaw = <<Asset(At(0), Lbl(962, 0))>>
    /\ signalsDataRaw = OneSignal
    /\ maxDistance \in {Null, 550}
    /\ globalMPS = 100
    /\ cautionOrders = <<>>
    /\ trainType = "passenger"
    /\ \E w \in {<<Null, Null>>, <<2, Null>>} :
         departureTime = w[1] /\ arrivalTime = w[2]
    /\ Start

SpecFar == InitFar /\ [][Next]_vars

\* no row of a catalogue lies within the threshold of a cleaned sample
OutOfReach(data) ==
    \A k \in 1..Len(data) :
        ~RowSkipped(data, k) =>
            MinDistance(RowLat(data[k]), RowLon(data[k])) > thresholdOf(maxDistance)

\* the downstream results of a run without a valid section
EmptyOutputs ==
    /\ validSectionData = <<>>
    /\ brakeTests = <<>>
    /\ stoppages = <<>>
    /\ haltViolations = <<>>
    /\ summary.brake_tests = <<>>
    /\ summary.stoppages = <<>>
    /\ summary.halt_approach_violations = <<>>
    /\ summary.avg_speed = Ratio(0, 1)
    /\ summary.max_speed = 0
    /\ summary.min_speed = 0

\* C16: when no asset is matched, no sample lying within the threshold of an
\* asset, the analysis raises no error and ends with an empty valid section, no
\* brake test, no stoppage, no halt approach violation and the average, maximum
\* and minimum speed 0.
C16_NoMatchEmpty ==
    pc # "prepare" /\ OutOfReach(oheDataRaw) /\ OutOfReach(signalsDataRaw) =>
        /\ error = "none"
        /\ pc # "failed"
        /\ pc = "done" => EmptyOutputs

\* --- summary: a trip at one speed, samples 10 m and 1 s apart; a mast at the
\* second sample, a mast 10 km away, a signal at the first sample, a signal 10 km
\* away, or no catalogue of the kind

MaxSumRows == 3

TripSpeeds == {110, 113, 114, 120}

SumMasts ==
    {<<>>,
     <<Asset(At(10), Lbl(962, 0))>>,
     <<Asset(At(10), Lbl(962, 0)), Asset(At(10000), Lbl(972, 0))>>}

SumSignals ==
    {<<>>,
     <<Asset(At(0), Plain(1))>>,
     <<Asset(At(0), Plain(1)), Asset(At(10000), Plain(2))>>}

InitSum ==
    /\ \E n \in 2..MaxSumRows, speed \in TripSpeeds :
         rtisDataRaw = [k \in 1..n |-> Row(At(10 * (k - 1)), speed, k)]
    /\ oheDataRaw \in SumMasts
    /\ signalsDataRaw \in SumSignals
    /\ maxDistance = Null
    /\ globalMPS \in {100, 110}
    /\ cautionOrders = <<>>
    /\ trainType \in {"passenger", "goods"}
    /\ departureTime = Null
    /\ arrivalTime = Null
    /\ Start

SpecSum == InitSum /\ [][Next]_vars

\* the results of the master catalogue with a status
WithStatus(status) == {k \in 1..Len(finalResults) : finalResults[k].status = status}

\* C17: the summary is a reduction of the results of the master catalogue:
\* matched_structures + unmatched_structures = total_structures = their number,
\* violation_count and warning_count are the numbers of those with status
\* violation and warning, and each of these is a matched OHE result; a single
\* matched OHE asset at 120 km/h under globalMPS 110 without caution orders has
\* limit_applied 110 and status violation, and violation_count is 1.
C17_SummaryReduction ==
    /\ \A k \in WithStatus("violation") \cup WithStatus("warning") :
           finalResults[k].matched /\ finalResults[k].source = "OHE"
    /\ pc = "done" =>
           /\ summary.total_structures = Len(finalResults)
           /\ summary.matched_structures + summary.unmatched_structures
                  = summary.total_structures
           /\ summary.matched_structures =
                  Cardinality({k \in 1..Len(finalResults) : finalResults[k].matched})
           /\ summary.violation_count = Cardinality(WithStatus("violation"))
           /\ summary.warning_count = Cardinality(WithStatus("warning"))
           /\ Len(finalResults) = 1 /\ MatchedOhe = {1} /\ globalMPS = 110
              /\ finalResults[1].speed_kmph = 120 =>
                  /\ finalResults[1].limit_applied = 110
                  /\ finalResults[1].status = "violation"
                  /\ summary.violation_count = 1

\* the one mast is matched at 120 km/h under globalMPS 110: one violation
C17_Witness ==
    /\ pc = "done"
    /\ Len(finalResults) = 1
    /\ MatchedOhe = {1}
    /\ globalMPS = 110
    /\ finalResults[1].speed_kmph = 120
    /\ summary.violation_count = 1
    /\ summary.warning_count = 0
    /\ summary.matched_structures = 1

\* the results of type Signal, of either catalogue
SignalTyped == {k \in 1..Len(AllResults) : AllResults[k].source = "Signal"}

\* C18: every result of type Signal has status ok and no limit applied, matched
\* or not and whatever its speed, and no result of type Signal is counted in
\* violation_count or warning_count.
C18_SignalsOk ==
    /\ \A k \in SignalTyped :
           AllResults[k].status = "ok" /\ AllResults[k].limit_applied = Null
    /\ pc = "done" =>
           /\ summary.violation_count =
                  Cardinality({k \in WithStatus("violation") : finalResults[k].source = "OHE"})
           /\ summary.warning_count =
                  Cardinality({k \in WithStatus("warning") : finalResults[k].source = "OHE"})
           /\ ~isOheMaster => summary.violation_count = 0 /\ summary.warning_count = 0

\* the signals are the master catalogue: one is matched at 120 km/h under
\* globalMPS 100, one is not matched, and nothing is counted
C18_Witness ==
    /\ pc = "done"
    /\ ~isOheMaster
    /\ globalMPS = 100
    /\ Len(finalResults) = 2
    /\ finalResults[1].source = "Signal"
    /\ finalResults[1].matched
    /\ finalResults[1].speed_kmph = 120
    /\ finalResults[1].status = "ok"
    /\ ~finalResults[2].matched
    /\ summary.violation_count = 0

\* --- time window: samples 10 m apart logged at times 1..3 in any order, a
\* departure and an arrival time, each given or not

MaxWinRows == 3

WinTimes == {1, 2, 3}

WinBounds == {Null} \cup WinTimes

InitWin ==
    /\ \E n \in 1..MaxWinRows :
         \E times \in [1..n -> WinTimes] :
            rtisDataRaw = [k \in 1..n |-> Row(At(10 * (k - 1)), 20, times[k])]
    /\ oheDataRaw = EndMasts(rtisDataRaw)
    /\ signalsDataRaw = OneSignal
    /\ maxDistance = Null
    /\ globalMPS = 100
    /\ cautionOrders = <<>>
    /\ trainType = "passenger"
    /\ departureTime \in WinBounds
    /\ arrivalTime \in WinBounds
    /\ Start

SpecWin == InitWin /\ [][Next]_vars

\* both ends of the time window are given
WindowGiven == departureTime # Null /\ arrivalTime # Null

\* no telemetry row is logged inside the window
WindowExcludesAll ==
    \A k \in 1..Len(rtisDataRaw) :
        rtisDataRaw[k].time < departureTime \/ rtisDataRaw[k].time > arrivalTime

\* C19: when departureTime and arrivalTime are both given and no telemetry sample
\* is logged inside the window, the analysis fails with the error EmptyTimeWindow
\* and returns no result.
C19_EmptyTimeWindow ==
    WindowGiven /\ arrivalTime > departureTime /\ WindowExcludesAll =>
        /\ pc # "done"
        /\ pc # "prepare" => pc = "failed" /\ error = "EmptyTimeWindow"

\* C20: when arrivalTime is not after departureTime, the analysis is rejected with
\* the error InvalidTimeWindow before any telemetry is filtered or matched.
C20_InvalidTimeWindow ==
    WindowGiven /\ arrivalTime <= departureTime =>
        /\ pc # "done"
        /\ pc # "prepare" =>
               /\ pc = "failed"
               /\ error = "InvalidTimeWindow"
               /\ rtisCleaned = <<>>
               /\ finalResults = <<>>

\* no row of the telemetry file has numeric, non-zero coordinates
NoValidCoords ==
    \A k \in 1..Len(rtisDataRaw) : ~ValidCoords(ToPoint(rtisDataRaw[k], k - 1))

\* C21: when the cleaning leaves no telemetry sample with finite non-zero
\* latitude and longitude, the analysis fails with the error NoValidTelemetry and
\* returns no result.
C21_NoValidTelemetry ==
    NoValidCoords =>
        /\ pc # "done"
        /\ pc # "prepare" => pc = "failed" /\ error = "NoValidTelemetry"

\* --- chainage: masts 60 m apart on the straight track, labelled one pole apart
\* in catalogue order, listed northwards or southwards, one of them without
\* coordinates or listed twice; samples a few metres before, between and past them

MaxChainRows == 3

\* metres from the mast at At(0) to a sample: t of the first segment is -0.1 at
\* -6 and 1.1 at 66
ChainOffsets == {-7, -6, 30, 66, 67}

NoCoords(label) == [lat |-> NaN, lon |-> TrackLon, label |-> label]

ChainCatalogues ==
    {<<Asset(At(0), Lbl(962, 0))>>,
     <<Asset(At(0), Lbl(962, 0)), Asset(At(60), Lbl(962, 1))>>,
     <<Asset(At(0), Lbl(962, 0)), Asset(At(60), Lbl(962, 1)), Asset(At(120), Lbl(962, 2))>>,
     <<Asset(At(0), Lbl(962, 0)), NoCoords(Lbl(962, 1)), Asset(At(120), Lbl(962, 2))>>,
     <<Asset(At(0), Lbl(962, 0)), Asset(At(0), Lbl(962, 1)), Asset(At(60), Lbl(962, 2))>>,
     <<Asset(At(120), Lbl(962, 0)), Asset(At(60), Lbl(962, 1)), Asset(At(0), Lbl(962, 2))>>}

InitChain ==
    /\ \E n \in 1..MaxChainRows :
         \E offs \in [1..n -> ChainOffsets] :
            rtisDataRaw = [k \in 1..n |-> Row(At(offs[k]), 20 * k, k)]
    /\ oheDataRaw \in ChainCatalogues
    /\ signalsDataRaw = OneSignal
    /\ maxDistance = Null
    /\ globalMPS = 100
    /\ cautionOrders = <<>>
    /\ trainType = "passenger"
    /\ departureTime = Null
    /\ arrivalTime = Null
    /\ Start

SpecChain == InitChain /\ [][Next]_vars

\* the rows of the OHE catalogue that have coordinates, in catalogue order
ListedRows == {k \in 1..Len(oheDataRaw) : ~RowSkipped(oheDataRaw, k)}

\* the catalogue is listed in increasing label chainage
LabelsIncreasing ==
    \A a, b \in ListedRows :
        a < b => oheToMeters(oheDataRaw[a].label) < oheToMeters(oheDataRaw[b].label)

\* the catalogue follows the straight track in one direction
OneDirection ==
    \/ \A a, b \in ListedRows : a < b => oheDataRaw[a].lat <= oheDataRaw[b].lat
    \/ \A a, b \in ListedRows : a < b => oheDataRaw[a].lat >= oheDataRaw[b].lat

\* C22: for an OHE catalogue listed in increasing label chainage along one
\* direction of the straight track, the chainages stored for the matched assets
\* are non-decreasing in catalogue order, projected or label-derived.
C22_ChainageMonotone ==
    isOheMaster /\ LabelsIncreasing /\ OneDirection =>
        \A a, b \in 1..Len(finalResults) :
            a < b /\ finalResults[a].matched /\ finalResults[b].matched =>
                finalResults[a].chainage <= finalResults[b].chainage

\* --- the page: a telemetry file of rows 10 m apart without a location column,
\* every kind of time cell; a mast file and a signal file without time and speed
\* columns, or none; a time window or none

MaxPageRows == 2

PageRow(lat, speed, time, label) ==
    [lat |-> lat, lon |-> TrackLon, speed |-> speed, time |-> time, label |-> label]

Mast(n) == [name |-> "OHE", n |-> n]

\* the time cells of row k: logged 100 s after the row before
PageCells(k) ==
    {TimeCell("none", 0, 0), TimeCell("bad", 0, 0), TimeCell("clock", 0, 100 * k),
     TimeCell("slash", 10, 100 * k), TimeCell("iso", 10, 100 * k)}

PageMasts ==
    <<PageRow(At(0), NaN, TimeCell("none", 0, 0), Mast(1)),
      PageRow(At(10), NaN, TimeCell("none", 0, 0), Mast(2))>>

PageSignals == <<PageRow(At(0), NaN, TimeCell("none", 0, 0), [name |-> "Signal", n |-> 1])>>

InitPage ==
    /\ \E n \in 1..MaxPageRows :
         \E speeds \in [1..n -> {0, 30}] :
            \E cells \in [1..n -> UNION {PageCells(k) : k \in 1..n}] :
               /\ \A k \in 1..n : cells[k] \in PageCells(k)
               /\ rtisDataRaw = [k \in 1..n |->
                                   PageRow(At(10 * (k - 1)), speeds[k], cells[k], NoLabel)]
    /\ oheDataRaw \in {<<>>, PageMasts}
    /\ signalsDataRaw \in {<<>>, PageSignals}
    /\ maxDistance = 50
    /\ globalMPS = 28
    /\ cautionOrders \in {<<>>, <<[startOhe |-> Mast(1), endOhe |-> Mast(1), speedLimit |-> 20]>>}
    /\ trainType = "passenger"
    /\ \E w \in {<<Null, Null>>, <<10 * Day, 10 * Day + 150>>, <<10 * Day + 150, 10 * Day>>} :
         departureTime = w[1] /\ arrivalTime = w[2]
    /\ pc = "parse"
    /\ i = 0
    /\ error = "none"
    /\ rtisCleaned = <<>>
    /\ firstMatchedRtisIndex = Infinity
    /\ lastMatchedRtisIndex = -1
    /\ finalResults = <<>>
    /\ signalResults = <<>>
    /\ signalHistory = <<>>
    /\ validSectionData = <<>>
    /\ brakeTests = <<>>
    /\ stoppages = <<>>
    /\ haltViolations = <<>>
    /\ summary = NoSummary
    /\ home = Idle

SpecPage == InitPage /\ [][NextPage]_vars

\* what a run of the page on the files and settings of this state passes to
\* setResults when the clock reads c; NoResults when the run ends in an error
ResultsUnder(c) ==
    LET gpsData == gpsDataOf(c)
        rejected == TimeFilterOn /\ arrivalTime <= departureTime
        filteredGps == IF TimeFilterOn
                       THEN FilterByWindow(gpsData, departureTime, arrivalTime)
                       ELSE gpsData
        matches == MatchOhe(filteredGps, oheDataOf(c), maxDistance)
    IN  IF gpsData = <<>> \/ rejected \/ filteredGps = <<>> THEN NoResults
        ELSE ResultsOf(ApplyLimits(matches, globalMPS, cautionOrders),
                       oheDataOf(c), signalDataOf(c),
                       analyzeHaltsAndBrakeTests(filteredGps), globalMPS)

\* C23: two runs of the analysis on identical inputs return identical results,
\* summaries and signal lists: what a finished run has returned is what a run on
\* the same files and settings returns under every other reading of the clock.
C23_Determinism ==
    pc = "success" =>
        \A c \in Readings(ClockInstants) : ResultsUnder(c) = home.results

\* C24: brake_tests holds at most one record of type BFT and at most one record
\* of type BPT, however many samples of the trip show a test or miss one.
C24_OneRecordPerTest == Len(BftRecords) <= 1 /\ Len(BptRecords) <= 1

\* a trip from rest with one BFT and one BPT record, two and more samples above
\* 15 km/h before the last one and two and more samples showing a power test
C24_Witness ==
    /\ pc = "done"
    /\ validSectionData[1].speed <= 15
    /\ Len(BftRecords) = 1
    /\ Len(BptRecords) = 1
    /\ Cardinality(Above15(validSectionData) \ {Len(validSectionData)}) >= 2
    /\ Cardinality(BptQualifying(validSectionData) \ {Len(validSectionData)}) >= 2

\* the row of the OHE catalogue that result j of finalResults belongs to
CatalogueRow(j) ==
    CHOOSE k \in ListedRows : Cardinality({m \in ListedRows : m <= k}) = j

\* the cleaned sample a result was matched to: the one logged at its time
MatchedSample(r) ==
    rtisCleaned[CHOOSE n \in 1..Len(rtisCleaned) : rtisCleaned[n].time = r.logging_time]

\* row k has a next catalogue entry with numeric coordinates
HasNext(k) ==
    /\ k < Len(oheDataRaw)
    /\ ~isNaN(oheDataRaw[k + 1].lat)
    /\ ~isNaN(oheDataRaw[k + 1].lon)

\* the northing of the segment from row k to the next entry, metres
SegmentNorth(k) == oheDataRaw[k + 1].lat - oheDataRaw[k].lat

\* the difference of two bearings, taken modulo 360: 0..180
BearingDifference(x, y) ==
    LET d == (x - y) % 360 IN IF d > 180 THEN 360 - d ELSE d

\* the bearing of the segment of row k on the meridian: north or south
SegmentBearing(k) == IF SegmentNorth(k) > 0 THEN 0 ELSE 180

\* t of sample p on the segment of row k lies in [-0.1, 1.1]; t is the quotient
\* of Along and Length * Length
TInBuffer(k, p) ==
    LET along == (p.lat - oheDataRaw[k].lat) * SegmentNorth(k)
        lenSq == SegmentNorth(k) * SegmentNorth(k)
    IN  -lenSq <= 10 * along /\ 10 * along <= 11 * lenSq

\* the four conditions of a projected chainage
Projects(k, p) ==
    /\ HasNext(k)
    /\ SegmentNorth(k) # 0
    /\ BearingDifference(SegmentBearing(k), p.heading) <= 45
    /\ TInBuffer(k, p)

\* t * segmentLength of sample p on the segment of row k, metres
AlongTrack(k, p) ==
    ((p.lat - oheDataRaw[k].lat) * SegmentNorth(k)) \div Abs(SegmentNorth(k))

Prepared == pc \notin {"prepare", "failed"}

\* the row of the telemetry file a cleaned sample was made from
RawRowOf(p) == rtisDataRaw[p.idx + 1]

\* C26: before any asset is matched, the prepared telemetry is in non-decreasing
\* order of timestamp, holds only rows with numeric non-zero latitude and
\* longitude logged inside the time window, where one is given, and keeps rows of
\* equal timestamp in their order in the file.
C26_PreparedTelemetry ==
    Prepared =>
        /\ \A a, b \in 1..Len(rtisCleaned) :
              a < b => /\ rtisCleaned[a].time <= rtisCleaned[b].time
                       /\ rtisCleaned[a].time = rtisCleaned[b].time =>
                              rtisCleaned[a].idx < rtisCleaned[b].idx
        /\ \A a \in 1..Len(rtisCleaned) :
              LET row == RawRowOf(rtisCleaned[a])
              IN  /\ ~isNaN(row.lat) /\ ~isNaN(row.lon) /\ row.lat # 0 /\ row.lon # 0
                  /\ rtisCleaned[a].time = row.time
                  /\ departureTime # Null => row.time >= departureTime
                  /\ arrivalTime # Null => row.time <= arrivalTime

\* a file of three rows: one dropped for its zero latitude, the other two kept,
\* the later row of the file logged first
C26_Witness ==
    /\ pc = "master"
    /\ Len(rtisDataRaw) = 3
    /\ Len(rtisCleaned) = 2
    /\ rtisCleaned[1].idx > rtisCleaned[2].idx
    /\ \E k \in 1..3 : rtisDataRaw[k].lat = 0

\* --- headings: samples a second apart, each at the mast, 5 m or 11 m north of
\* it, so that successive samples lie 0, 5, 6 or 11 m apart in either direction

MaxHeadRows == 4

HeadOffsets == {0, 5, 11}

InitHead ==
    /\ \E n \in 1..MaxHeadRows :
         \E offs \in [1..n -> HeadOffsets] :
            rtisDataRaw = [k \in 1..n |-> Row(At(offs[k]), 20, k)]
    /\ oheDataRaw = <<Asset(At(0), Lbl(962, 0))>>
    /\ signalsDataRaw = OneSignal
    /\ maxDistance = Null
    /\ globalMPS = 100
    /\ cautionOrders = <<>>
    /\ trainType = "passenger"
    /\ departureTime = Null
    /\ arrivalTime = Null
    /\ Start

SpecHead == InitHead /\ [][Next]_vars

\* metres from sample k to the next sample
Displacement(k) ==
    getDistance(rtisCleaned[k].lat, rtisCleaned[k].lon,
                rtisCleaned[k + 1].lat, rtisCleaned[k + 1].lon)

BearingToNext(k) ==
    getBearing(rtisCleaned[k].lat, rtisCleaned[k].lon,
               rtisCleaned[k + 1].lat, rtisCleaned[k + 1].lon)

\* the heading of the sample before sample k, 0 for the first sample
InheritedHeading(k) == IF k = 1 THEN 0 ELSE rtisCleaned[k - 1].heading

\* C27: the heading of a sample other than the last is the bearing to the next
\* sample when the displacement to it is 5 m or more, else the heading of the
\* sample before it (0 for the first); the last sample has the heading of the
\* sample before it (0 when it is the only one); every heading is in [0, 360).
C27_Headings ==
    Prepared =>
        \A k \in 1..Len(rtisCleaned) :
            /\ rtisCleaned[k].heading >= 0 /\ rtisCleaned[k].heading < 360
            /\ rtisCleaned[k].heading =
                  IF k < Len(rtisCleaned) /\ Displacement(k) >= 5 THEN BearingToNext(k)
                  ELSE InheritedHeading(k)

\* C27, amended: the same with the bearing taken when the displacement to the
\* next sample is more than 5 m; at exactly 5 m the heading is inherited.
C27_HeadingsAbove5 ==
    Prepared =>
        \A k \in 1..Len(rtisCleaned) :
            /\ rtisCleaned[k].heading >= 0 /\ rtisCleaned[k].heading < 360
            /\ rtisCleaned[k].heading =
                  IF k < Len(rtisCleaned) /\ Displacement(k) > 5 THEN BearingToNext(k)
                  ELSE InheritedHeading(k)

\* a sample exactly 5 m from the next one that keeps the heading of the sample
\* before it, the bearing to the next sample being another
C27_Witness ==
    /\ Prepared
    /\ \E k \in 1..(Len(rtisCleaned) - 1) :
         /\ Displacement(k) = 5
         /\ BearingToNext(k) # InheritedHeading(k)
         /\ rtisCleaned[k].heading = InheritedHeading(k)
    /\ \E k \in 1..(Len(rtisCleaned) - 1) :
         /\ Displacement(k) = 6
         /\ BearingToNext(k) # InheritedHeading(k)
         /\ rtisCleaned[k].heading = BearingToNext(k)

\* --- swapped coordinates: rows whose latitude and longitude are 20 and 78
\* degrees in either order and with either sign, a second apart; a mast and a
\* signal at 20 N 78 E

MaxFlipRows == 2

FlipCoords == {At(0), -At(0), TrackLon, -TrackLon}

InitFlip ==
    /\ \E n \in 1..MaxFlipRows :
         \E lats \in [1..n -> FlipCoords], lons \in [1..n -> FlipCoords] :
            rtisDataRaw = [k \in 1..n |->
                             [lat |-> lats[k], lon |-> lons[k], speed |-> 20, time |-> k]]
    /\ oheDataRaw = <<Asset(At(0), Lbl(962, 0))>>
    /\ signalsDataRaw = OneSignal
    /\ maxDistance = Null
    /\ globalMPS = 100
    /\ cautionOrders = <<>>
    /\ trainType = "passenger"
    /\ departureTime = Null
    /\ arrivalTime = Null
    /\ Start

SpecFlip == InitFlip /\ [][Next]_vars

\* |lat| > 60 and |lon| < 40, in degrees
LooksSwapped(row) ==
    Abs(row.lat) > 60 * MetresPerDegree /\ Abs(row.lon) < 40 * MetresPerDegree

\* C28: the preparation swaps the latitude and the longitude of a row exactly
\* when |lat| > 60 and |lon| < 40, whatever the signs of the two; every other
\* row keeps its coordinates.
C28_SwapRule ==
    Prepared =>
        \A a \in 1..Len(rtisCleaned) :
            LET row == RawRowOf(rtisCleaned[a])
            IN  IF LooksSwapped(row)
                THEN rtisCleaned[a].lat = row.lon /\ rtisCleaned[a].lon = row.lat
                ELSE rtisCleaned[a].lat = row.lat /\ rtisCleaned[a].lon = row.lon

\* the runs of zero speed that no moving sample ends: still open at the last sample
OpenRuns(vs) == {a \in RunStarts(vs) : MovingAfter(vs, a) = {}}

\* the stoppages reported for the run started at sample a, by its position
StoppagesAt(vs, a) == {k \in 1..Len(stoppages) : stoppages[k].latitude = vs[a].lat}

\* C29: the stoppages correspond one to one, in chronological order, to the
\* maximal runs of zero speed that a moving sample ends more than 30 s after the
\* run's first sample, with that sample's time as departureTime; no two
\* stoppages overlap; a run still open at the last sample gives no stoppage.
C29_StoppageRuns ==
    LET vs == validSectionData
    IN  StopsDone =>
            /\ \A a \in LongRuns(vs) :
                   /\ Cardinality(StoppagesAt(vs, a)) = 1
                   /\ \A k \in StoppagesAt(vs, a) :
                          stoppages[k].departureTime = vs[RunEnd(vs, a)].time
            /\ \A k \in 1..Len(stoppages) :
                   \E a \in LongRuns(vs) : k \in StoppagesAt(vs, a)
            /\ \A j, k \in 1..Len(stoppages) :
                   j < k => /\ stoppages[j].arrivalTime < stoppages[k].arrivalTime
                            /\ stoppages[j].departureTime <= stoppages[k].arrivalTime
            /\ \A a \in OpenRuns(vs) : StoppagesAt(vs, a) = {}

\* a trip with a stoppage and then a run of 31 s at rest that is still open
\* at the last sample
C29_Witness ==
    LET vs == validSectionData
    IN  /\ pc = "done"
        /\ Len(stoppages) >= 1
        /\ Len(vs) >= 4
        /\ vs[Len(vs)].speed = 0
        /\ vs[Len(vs) - 1].speed = 0
        /\ vs[Len(vs)].time - vs[Len(vs) - 1].time > 30

\* both catalogues have been processed
AllProcessed == pc \in {"section", "brake", "stoppages", "halt", "summary", "done"}

\* the indices of the telemetry samples that the matched assets of both
\* catalogues were matched to
MatchedIndices ==
    {MatchedSample(finalResults[j]).idx :
        j \in {n \in 1..Len(finalResults) : finalResults[n].matched}}
    \cup {MatchedSample(signalResults[j]).idx :
            j \in {n \in 1..Len(signalResults) : signalResults[n].matched}}

====
